---------------------------- MODULE Spec2Model ----------------------------
(***************************************************************************)
(* A model of the EC600N AT-command driver (package ec600n), of the cron   *)
(* job of main.go that runs its network check and of the call goroutines   *)
(* of api/server.go.                                                       *)
(*                                                                         *)
(* Text is a sequence of one-character strings.  The serial port is the    *)
(* kernel's input queue rx (whole lines, in arrival order); every          *)
(* bufio.Reader made on the port has a buffer of its own that a fill       *)
(* loads with all the input pending at that moment.                        *)
(***************************************************************************)
EXTENDS Naturals, Integers, Sequences, FiniteSets

(***************************************************************************)
(* Program constants.                                                      *)
(***************************************************************************)
MaxResponseLines == 10

(***************************************************************************)
(* Bounds of the model.                                                    *)
(***************************************************************************)
\* the most lines the kernel queue of the port holds unread
MaxRx == 2

\* the same, in the specification of the whole program
MaxRxSys == 1

\* the most lines the module sends in a run with the call monitor
MaxFeed == 3

\* the most read goroutines of earlier iterations that are told apart
MaxOrphans == 1

\* the longest phone number a client passes
MaxNumLen == 1

\* how many lines the module sends in a run of SpecMon
MaxFeedMon == 2

(***************************************************************************)
(* Text: strings.Contains, the line terminator, the texts of the program.  *)
(***************************************************************************)
HasPrefixAt(s, sub, k) ==
    /\ k + Len(sub) - 1 <= Len(s)
    /\ \A j \in 1..Len(sub) : s[k + j - 1] = sub[j]

Contains(s, sub) ==
    \E k \in 1..(Len(s) + 1) : HasPrefixAt(s, sub, k)

CRLF == <<"\r", "\n">>

T_OK      == <<"O", "K">>
T_ERROR   == <<"E", "R", "R", "O", "R">>
T_CONNECT == <<"C", "O", "N", "N", "E", "C", "T">>
T_AT      == <<"A", "T">>
T_ATH     == <<"A", "T", "H">>
T_ATD     == <<"A", "T", "D">>

\* what the module may send, without the line terminator
M_OK        == <<"O", "K">>
M_CMEERROR  == <<"+", "C", "M", "E", " ", "E", "R", "R", "O", "R">>
M_RING      == <<"R", "I", "N", "G">>
M_NOCARRIER == <<"N", "O", " ", "C", "A", "R", "R", "I", "E", "R">>
M_BUSY      == <<"B", "U", "S", "Y">>
M_CONNECT   == <<"C", "O", "N", "N", "E", "C", "T">>
M_NOANSWER  == <<"N", "O", " ", "A", "N", "S", "W", "E", "R">>

RECURSIVE Flatten(_)
Flatten(chunks) ==
    IF chunks = <<>> THEN <<>> ELSE Head(chunks) \o Flatten(Tail(chunks))

(***************************************************************************)
(* State.                                                                  *)
(***************************************************************************)
Procs == {"init", "job1", "job2", "req1", "req2", "cli"}

VARIABLES
    port,     \* e.port: "nil", "open"
    connected,\* e.connected
    rx,       \* input pending in the kernel queue of the port: lines
    stale,    \* per caller: how many lines at the head of rx were pending
              \* when the flush of its current sendATCommand was made
    x,        \* per caller: the frame of its sendATCommand call
    pc,       \* per caller: where it stands in its own code
    mu,       \* the mutex of initScheduler: "free" or the job holding it
    ticks,    \* how many times the cron schedule has fired
    todo,     \* per call goroutine: the numbers its loop has still to call
    active,   \* per caller: it has a call that was accepted and is neither
              \* hung up nor ended by the network
    snap,     \* per job: the NetworkStatus of its CheckNetworkStatus, the
              \* reports it has sent and what StartNetworkMonitoring returns
    reply,    \* per request: the response of handleNotify

    mon,      \* the monitor goroutine of monitorCallStatus
    mbuf,     \* the lines in the buffer of the monitor's bufio.Reader
    cur,      \* the read goroutine of the monitor's current iteration
    orphans,  \* read goroutines of earlier iterations, still in ReadString
    cancelled,\* the monitor's context is done
    chan,     \* the statuses in statusChan
    fed       \* how many lines the module has sent (where that is bounded)

vars == <<port, connected, rx, stale, x, pc, mu, ticks, todo, active,
          snap, reply,
          mon, mbuf, cur, orphans, cancelled, chan, fed>>

\* the variables of the call monitor
monVars == <<mon, mbuf, cur, orphans, cancelled, chan>>

\* the variables of the scheduler and of the call goroutines
appVars == <<mu, ticks, todo, active, snap, reply>>

\* The monitor goroutine.
\*   pc     "none" | "top" | "wait" | "send" | "closed"
\*   status the status it is about to send
\*   term   whether it returns after the send
\*   handed whether MakeCallWithMonitor has returned its channel
NoMonitor ==
    [pc |-> "none", status |-> "none", term |-> FALSE, handed |-> FALSE]

\* The frame of one sendATCommand call.
\*   st    "none" | "flush" | "write" | "read" | "ret"
\*   cmd   the command
\*   i     the loop index of readResponse
\*   rbuf  the lines in the buffer of the call's bufio.Reader
\*   resp  the chunks written to the response strings.Builder
\*   err   the error returned: "nil" | "port" | "flush" | "write"
\*   ops   the operations done on the port, in order
\*   rdErr whether a ReadString of this call failed
\*   old   whether a line that arrived before the call got into rbuf
\*   pre   how many lines were pending on the port at the call's flush
\*   blank whether the call is a dial whose number has nothing but white
\*         space around dashes and spaces
NoFrame ==
    [st |-> "none", cmd |-> <<>>, i |-> 0, rbuf |-> <<>>, resp |-> <<>>,
     err |-> "nil", ops |-> <<>>, rdErr |-> FALSE, old |-> FALSE, pre |-> 0,
     blank |-> FALSE]

\* The NetworkStatus of a job and what the job did with it.
\*   signal, reg, sim, op, imei  the fields of the snapshot
\*   sent   the reports handed to SendToWechat, in order: the status
\*          text and whether the send succeeded
\*   ret    what StartNetworkMonitoring returned: "none" | "nil" | "err"
NoSnap ==
    [signal |-> 0, reg |-> "", sim |-> "", op |-> <<>>, imei |-> <<>>,
     sent |-> <<>>, ret |-> "none"]

\* The response of handleNotify to a request.
\*   status  the HTTP status, 0 before the response
\*   success the field Success of the body
\*   started whether the call goroutine was started
\*   req     the request
\*   now     time.Now() of validateTimestamp
NoReply ==
    [status |-> 0, success |-> FALSE, started |-> FALSE, req |-> <<>>,
     now |-> 0]

(***************************************************************************)
(* sendATCommand and readResponse.                                         *)
(***************************************************************************)
\* strings.Contains(line, "OK") || strings.Contains(line, "ERROR")
IsSentinel(line) == Contains(line, T_OK) \/ Contains(line, T_ERROR)

\* (mutant) the loop of readResponse running once too often
MoreLines_OneTooMany(i) == i <= MaxResponseLines

\* the loop condition of readResponse
MoreLines(i) == i < MaxResponseLines

\* The call: the nil check of the port.
Call(command) ==
    IF port = "nil"
    THEN [NoFrame EXCEPT !.st = "ret", !.err = "port"]
    ELSE [NoFrame EXCEPT !.st = "flush", !.cmd = command]

\* What the steps of sendATCommand leave alone.
OnlyPort(p) == UNCHANGED <<port, connected, pc, appVars, monVars, fed>>

\* (mutant) a flush that leaves the pending input in place
Flush_KeepsInput(p) ==
    /\ x[p].st = "flush"
    /\ x' = [x EXCEPT ![p].st = "write", ![p].ops = Append(@, "flush"),
                      ![p].pre = Len(rx)]
    /\ stale' = [stale EXCEPT ![p] = Len(rx)]
    /\ UNCHANGED rx
    /\ OnlyPort(p)

\* e.port.Flush(): the pending input is discarded, or the flush fails.
Flush(p) ==
    /\ x[p].st = "flush"
    /\ \/ /\ rx' = <<>>
          /\ stale' = [q \in Procs |-> 0]
          /\ x' = [x EXCEPT ![p].st = "write",
                            ![p].ops = Append(@, "flush"),
                            ![p].pre = Len(rx)]
       \/ /\ x' = [x EXCEPT ![p].st = "ret", ![p].err = "flush",
                            ![p].ops = Append(@, "flush")]
          /\ UNCHANGED <<rx, stale>>
    /\ OnlyPort(p)

\* e.port.Write(command + "\r\n"), then the sleep of ATCommandTimeout and
\* bufio.NewReader(e.port); or the write fails.
Write(p) ==
    /\ x[p].st = "write"
    /\ \/ x' = [x EXCEPT ![p].st = "read", ![p].i = 0, ![p].rbuf = <<>>,
                         ![p].ops = Append(@, "write")]
       \/ x' = [x EXCEPT ![p].st = "ret", ![p].err = "write",
                         ![p].ops = Append(@, "write")]
    /\ UNCHANGED <<rx, stale>>
    /\ OnlyPort(p)

\* The frame after reader.ReadString('\n') gave line, with buf left in the
\* reader: the line is written to the builder; a sentinel or the end of the
\* loop ends readResponse.
AfterLine(f, line, buf) ==
    [f EXCEPT !.rbuf = buf,
              !.resp = Append(@, line),
              !.i = @ + 1,
              !.ops = Append(@, "read"),
              !.st = IF IsSentinel(line) \/ ~MoreLines(f.i + 1)
                     THEN "ret" ELSE "read"]

\* One iteration of readResponse whose ReadString returns a line: from the
\* reader's buffer, or after a fill that takes all the pending input.
ReadLine(p) ==
    /\ x[p].st = "read"
    /\ IF x[p].rbuf # <<>>
       THEN /\ x' = [x EXCEPT ![p] =
                        AfterLine(@, Head(@.rbuf) \o CRLF, Tail(@.rbuf))]
            /\ UNCHANGED <<rx, stale>>
       ELSE /\ rx # <<>>
            /\ x' = [x EXCEPT ![p] =
                        [AfterLine(@, Head(rx) \o CRLF, Tail(rx))
                            EXCEPT !.old = @ \/ stale[p] > 0]]
            /\ rx' = <<>>
            /\ stale' = [q \in Procs |-> 0]
    /\ OnlyPort(p)

\* One iteration of readResponse whose ReadString fails (the reader's buffer
\* is empty and the read of the port fails): break.
ReadFail(p) ==
    /\ x[p].st = "read"
    /\ x[p].rbuf = <<>>
    /\ x' = [x EXCEPT ![p].st = "ret", ![p].rdErr = TRUE,
                      ![p].ops = Append(@, "read")]
    /\ UNCHANGED <<rx, stale>>
    /\ OnlyPort(p)

\* return response.String(), nil  /  return "", err
Response(f) == IF f.err = "nil" THEN Flatten(f.resp) ELSE <<>>

(***************************************************************************)
(* The module: it sends a line at any time, while fewer than cap lines are *)
(* pending.                                                                *)
(***************************************************************************)
\* the lines that tell the end of a call
IsTerminal(line) == line \in {M_NOCARRIER, M_BUSY, M_NOANSWER}

ModemLine(line, cap) ==
    /\ port = "open"
    /\ Len(rx) < cap
    /\ rx' = Append(rx, line)
    /\ active' = IF IsTerminal(line) THEN [p \in Procs |-> FALSE] ELSE active
    /\ UNCHANGED <<port, connected, stale, x, pc, mu, ticks, todo, snap,
                 reply, monVars>>

\* the module sends a line
ModemSend(line, cap) == ModemLine(line, cap) /\ UNCHANGED fed

\* the module sends a line, one of the max lines of the run
ModemFeedUpTo(line, cap, max) ==
    /\ fed < max
    /\ fed' = fed + 1
    /\ ModemLine(line, cap)

\* the module sends a line, one of the MaxFeed lines of the run
ModemFeed(line, cap) == ModemFeedUpTo(line, cap, MaxFeed)

(***************************************************************************)
(* A client that calls sendATCommand over and over.                        *)
(***************************************************************************)
CliCall(p, command) ==
    /\ pc[p] = "idle"
    /\ x[p].st = "none"
    /\ x' = [x EXCEPT ![p] = Call(command)]
    /\ UNCHANGED stale
    /\ pc' = [pc EXCEPT ![p] = "cmd"]
    /\ UNCHANGED <<port, connected, rx, appVars, monVars, fed>>

CliReturn(p) ==
    /\ pc[p] = "cmd"
    /\ x[p].st = "ret"
    /\ x' = [x EXCEPT ![p] = NoFrame]
    /\ pc' = [pc EXCEPT ![p] = "idle"]
    /\ UNCHANGED <<port, connected, rx, stale, appVars, monVars, fed>>

(***************************************************************************)
(* SpecCmd: one caller of sendATCommand on an open port, the module        *)
(* sending noise, "OK" and "+CME ERROR" lines in any order.                *)
(***************************************************************************)
CmdLines == {M_RING, M_OK, M_CMEERROR}

InitCmd ==
    /\ port = "open"
    /\ connected = TRUE
    /\ rx = <<>>
    /\ stale = [p \in Procs |-> 0]
    /\ x = [p \in Procs |-> NoFrame]
    /\ pc = [p \in Procs |-> "idle"]
    /\ mu = "free"
    /\ ticks = 0
    /\ todo = [p \in Procs |-> <<>>]
    /\ snap = [p \in Procs |-> NoSnap]
    /\ reply = [p \in Procs |-> NoReply]
    /\ active = [p \in Procs |-> FALSE]
    /\ mon = NoMonitor
    /\ mbuf = <<>>
    /\ cur = [st |-> "none", line |-> <<>>]
    /\ orphans = 0
    /\ cancelled = FALSE
    /\ chan = <<>>
    /\ fed = 0

NextCmd ==
    \/ CliCall("cli", T_AT)
    \/ Flush("cli")
    \/ Write("cli")
    \/ ReadLine("cli")
    \/ ReadFail("cli")
    \/ CliReturn("cli")
    \/ \E l \in CmdLines : ModemSend(l, MaxRx)

SpecCmd == InitCmd /\ [][NextCmd]_vars


(***************************************************************************)
(* MakeCall and HangupCall.                                                *)
(***************************************************************************)
\* the white space strings.TrimSpace cuts
IsSpace(c) == c \in {" ", "\t", "\n", "\r", "\f"}

RECURSIVE TrimLeft(_)
TrimLeft(s) ==
    IF s # <<>> /\ IsSpace(Head(s)) THEN TrimLeft(Tail(s)) ELSE s

RECURSIVE TrimRight(_)
TrimRight(s) ==
    IF s # <<>> /\ IsSpace(s[Len(s)])
    THEN TrimRight(SubSeq(s, 1, Len(s) - 1)) ELSE s

\* strings.TrimSpace
TrimSpace(s) == TrimRight(TrimLeft(s))

\* strings.ReplaceAll(s, c, "") for a one-character c
RemoveAll(s, c) == SelectSeq(s, LAMBDA ch : ch # c)

\* (mutant) the cleaning without the removal of the dashes
Sanitize_KeepsDashes(number) == RemoveAll(TrimSpace(number), " ")

\* the cleaning of the phone number in MakeCall and MakeCallWithMonitor
Sanitize(number) == RemoveAll(RemoveAll(TrimSpace(number), "-"), " ")

\* fmt.Sprintf("ATD%s;", phoneNumber)
DialCommand(number) == T_ATD \o number \o <<";">>

\* phoneNumber == ""
IsEmptyNumber(number) == number = <<>>

\* A number that is white space, then dashes and spaces, then white space.
BlankNumber(number) ==
    \E a \in 0..Len(number) : \E b \in a..Len(number) :
        /\ \A k \in 1..a : IsSpace(number[k])
        /\ \A k \in (a + 1)..b : number[k] \in {"-", " "}
        /\ \A k \in (b + 1)..Len(number) : IsSpace(number[k])

\* The start of MakeCall and of MakeCallWithMonitor: the nil check of the
\* port, the cleaning of the number, the check for an empty number; then
\* sendATCommand is called with the dial command.  An error before
\* sendATCommand is a frame that returned without an operation.
Dial(number) ==
    [(IF port = "nil"
      THEN [NoFrame EXCEPT !.st = "ret", !.err = "port"]
      ELSE IF IsEmptyNumber(Sanitize(number))
      THEN [NoFrame EXCEPT !.st = "ret", !.err = "empty"]
      ELSE Call(DialCommand(Sanitize(number))))
     EXCEPT !.blank = BlankNumber(number)]

\* MakeCall up to its sendATCommand.
MakeCall(number) == Dial(number)

\* (mutant) a check of the dial response that knows "OK" only
DialAccepted_OnlyOK(f) == f.err = "nil" /\ Contains(Response(f), T_OK)

\* the check of the dial response in MakeCall and MakeCallWithMonitor
DialAccepted(f) ==
    /\ f.err = "nil"
    /\ Contains(Response(f), T_OK) \/ Contains(Response(f), T_CONNECT)

\* What MakeCall and MakeCallWithMonitor return for a frame that returned:
\* nil, or an error of some kind, the dial error with the response in it.
MakeCallResult(f) ==
    IF f.err \in {"port", "empty"} THEN [kind |-> f.err, text |-> <<>>]
    ELSE IF f.err # "nil" THEN [kind |-> "send", text |-> <<>>]
    ELSE IF DialAccepted(f) THEN [kind |-> "nil", text |-> <<>>]
    ELSE [kind |-> "dial", text |-> Response(f)]

\* (mutant) a check of the hangup response that takes any response
HangupDone_Always(f) == f.err = "nil"

\* the check of the response in HangupCall
HangupDone(f) == f.err = "nil" /\ Contains(Response(f), T_OK)

\* What HangupCall returns for a frame that returned: nil, the error of
\* sendATCommand, or the hangup error with the response in it.
HangupResult(f) ==
    IF f.err # "nil" THEN [kind |-> "send", text |-> <<>>]
    ELSE IF HangupDone(f) THEN [kind |-> "nil", text |-> <<>>]
    ELSE [kind |-> "hangup", text |-> Response(f)]

(***************************************************************************)
(* NewEC600N: initSerial, testConnection.                                  *)
(***************************************************************************)
\* initSerial: serial.OpenPort fails and NewEC600N returns the error, or
\* the port is kept and testConnection calls sendATCommand("AT").
InitSerial ==
    /\ pc["init"] = "new"
    /\ \/ /\ pc' = [pc EXCEPT !["init"] = "failed"]
          /\ UNCHANGED <<port, x>>
       \/ /\ port' = "open"
          /\ x' = [x EXCEPT !["init"] =
                      [NoFrame EXCEPT !.st = "flush", !.cmd = T_AT]]
          /\ pc' = [pc EXCEPT !["init"] = "probe"]
    /\ UNCHANGED <<connected, rx, stale, appVars, monVars, fed>>

\* (mutant) the probe taken for good whatever the module answered
ProbeOK_AnyResponse(f) == f.err = "nil"

\* testConnection returns nil: sendATCommand did, and the response has "OK"
ProbeOK(f) == f.err = "nil" /\ Contains(Response(f), T_OK)

\* testConnection returns: an error, or a response without "OK", fails
\* NewEC600N; else connected is set.
TestConnection ==
    /\ pc["init"] = "probe"
    /\ x["init"].st = "ret"
    /\ IF ProbeOK(x["init"])
       THEN /\ connected' = TRUE
            /\ pc' = [pc EXCEPT !["init"] = "ready"]
       ELSE /\ pc' = [pc EXCEPT !["init"] = "failed"]
            /\ UNCHANGED connected
    /\ x' = [x EXCEPT !["init"] = NoFrame]
    /\ UNCHANGED <<port, rx, stale, appVars, monVars, fed>>

(***************************************************************************)
(* The parsers of the status queries.  The regular expressions of the      *)
(* driver are matched as Go does: the leftmost match, every repetition as  *)
(* long as it can be.                                                      *)
(***************************************************************************)
MinSignalStrength == 5
IMEILength == 15

Digits == {"0", "1", "2", "3", "4", "5", "6", "7", "8", "9"}

\* the class \s of Go regular expressions
ReSpace == {"\t", "\n", "\f", "\r", " "}

\* where the longest run of characters of class that starts at k ends
RunEnd(s, k, class) ==
    CHOOSE e \in k..(Len(s) + 1) :
        /\ \A j \in k..(e - 1) : s[j] \in class
        /\ e = Len(s) + 1 \/ s[e] \notin class

CharAt(s, k, c) == k <= Len(s) /\ s[k] = c

P_CSQ   == <<"+", "C", "S", "Q", ":">>
P_CREG  == <<"+", "C", "R", "E", "G", ":">>
P_COPS  == <<"+", "C", "O", "P", "S", ":">>
T_READY  == <<"R", "E", "A", "D", "Y">>
T_SIMPIN == <<"S", "I", "M", " ", "P", "I", "N">>
T_SIMPUK == <<"S", "I", "M", " ", "P", "U", "K">>

\* The positions of a match of  prefix \s* \d+ ,  at k: where the digits
\* start and where the comma is; <<>> when there is no match.
PrefixNumberComma(s, prefix, k) ==
    IF ~HasPrefixAt(s, prefix, k) THEN <<>>
    ELSE LET b == RunEnd(s, k + Len(prefix), ReSpace)
             c == RunEnd(s, b, Digits)
         IN  IF c > b /\ CharAt(s, c, ",") THEN <<b, c>> ELSE <<>>

\* the least position of a set of positions
Least(found) == CHOOSE i \in found : \A j \in found : i <= j

\* (mutant) reCSQ without its second number
CSQAt_NoSecondNumber(s, k) ==
    LET m == PrefixNumberComma(s, P_CSQ, k)
    IN  IF m # <<>> THEN <<SubSeq(s, m[1], m[2] - 1)>> ELSE <<>>

\* reCSQ at k: \+CSQ:\s*(\d+),(\d+)
CSQAt(s, k) ==
    LET m == PrefixNumberComma(s, P_CSQ, k)
    IN  IF m # <<>> /\ m[2] + 1 <= Len(s) /\ s[m[2] + 1] \in Digits
        THEN <<SubSeq(s, m[1], m[2] - 1)>> ELSE <<>>

\* reCSQ.FindStringSubmatch(response): whether it matched, and matches[1]
FindCSQ(s) ==
    LET found == {k \in 1..Len(s) : CSQAt(s, k) # <<>>}
    IN  IF found = {} THEN [ok |-> FALSE, sub |-> <<>>]
        ELSE [ok |-> TRUE, sub |-> CSQAt(s, Least(found))[1]]

\* reCREG at k: \+CREG:\s*\d+,(\d+)
CREGAt(s, k) ==
    LET m == PrefixNumberComma(s, P_CREG, k)
    IN  IF m # <<>> /\ RunEnd(s, m[2] + 1, Digits) > m[2] + 1
        THEN <<SubSeq(s, m[2] + 1, RunEnd(s, m[2] + 1, Digits) - 1)>>
        ELSE <<>>

FindCREG(s) ==
    LET found == {k \in 1..Len(s) : CREGAt(s, k) # <<>>}
    IN  IF found = {} THEN [ok |-> FALSE, sub |-> <<>>]
        ELSE [ok |-> TRUE, sub |-> CREGAt(s, Least(found))[1]]

\* reCOPS at k: \+COPS:\s*\d+,\d+,"([^"]+)"
COPSAt(s, k) ==
    LET m == PrefixNumberComma(s, P_COPS, k)
    IN  IF m = <<>> THEN <<>>
        ELSE LET d == RunEnd(s, m[2] + 1, Digits)
                 q == RunEnd(s, d + 2, {s[j] : j \in 1..Len(s)} \ {"\""})
             IN  IF /\ d > m[2] + 1
                    /\ CharAt(s, d, ",")
                    /\ CharAt(s, d + 1, "\"")
                    /\ q > d + 2
                    /\ CharAt(s, q, "\"")
                 THEN <<SubSeq(s, d + 2, q - 1)>> ELSE <<>>

FindCOPS(s) ==
    LET found == {k \in 1..Len(s) : COPSAt(s, k) # <<>>}
    IN  IF found = {} THEN [ok |-> FALSE, sub |-> <<>>]
        ELSE [ok |-> TRUE, sub |-> COPSAt(s, Least(found))[1]]

\* the value of a decimal digit
DigitValue(c) ==
    CASE c = "0" -> 0 [] c = "1" -> 1 [] c = "2" -> 2 [] c = "3" -> 3
      [] c = "4" -> 4 [] c = "5" -> 5 [] c = "6" -> 6 [] c = "7" -> 7
      [] c = "8" -> 8 [] c = "9" -> 9

RECURSIVE DecimalValue(_)
DecimalValue(ds) ==
    IF ds = <<>> THEN 0
    ELSE 10 * DecimalValue(SubSeq(ds, 1, Len(ds) - 1))
         + DigitValue(ds[Len(ds)])

RECURSIVE StripZeros(_)
StripZeros(ds) ==
    IF ds # <<>> /\ Head(ds) = "0" THEN StripZeros(Tail(ds)) ELSE ds

\* the most digits a value of type int has (an int of 64 bits)
MaxIntDigits == 19

\* fmt.Sscanf(ds, "%d", &signal) for a string of digits: the value, or
\* the error of a number that no int holds.  (Whether a number of 10 to 19
\* digits fits depends on the width of int and on the number; the
\* responses of the model have none.)
ScanInt(ds) ==
    IF Len(StripZeros(ds)) > MaxIntDigits
    THEN [ok |-> FALSE, val |-> 0]
    ELSE [ok |-> TRUE, val |-> DecimalValue(StripZeros(ds))]

\* The texts of the registration states and of the SIM states are named
\* here by what they say:
\*   "unregistered" "home" "searching" "denied" "roaming" "unknown"
\*   "ready" "pin" "puk" "unknown"
\* networkRegStatusMap[code], and whether code is a key of the map
RegStatusKeys == {<<"0">>, <<"1">>, <<"2">>, <<"3">>, <<"5">>}

networkRegStatusMap(code) ==
    CASE code = <<"0">> -> "unregistered"
      [] code = <<"1">> -> "home"
      [] code = <<"2">> -> "searching"
      [] code = <<"3">> -> "denied"
      [] code = <<"5">> -> "roaming"

\* strings.Split(s, "\n")
RECURSIVE SplitLines(_)
SplitLines(s) ==
    IF \A k \in 1..Len(s) : s[k] # "\n" THEN <<s>>
    ELSE LET n == CHOOSE k \in 1..Len(s) :
                      s[k] = "\n" /\ \A j \in 1..(k - 1) : s[j] # "\n"
         IN  <<SubSeq(s, 1, n - 1)>> \o SplitLines(SubSeq(s, n + 1, Len(s)))

AllDigits(line) == \A k \in 1..Len(line) : line[k] \in Digits

\* (mutant) the test of getIMEI that asks for a digit at the start only
IsIMEI_FirstDigit(line) == Len(line) = IMEILength /\ line[1] \in Digits

\* len(line) == IMEILength && reIMEI.MatchString(line), reIMEI = ^\d{15}$
IsIMEI(line) == Len(line) = IMEILength /\ AllDigits(line)

\* The getters: each gives the value and the error it returns, "nil", the
\* error of sendATCommand ("send") or an error of its own ("parse"), from
\* the frame f of its sendATCommand call.
getSignalStrength(f) ==
    LET matches == FindCSQ(Response(f))
    IN  IF f.err # "nil" THEN [val |-> 0, err |-> "send"]
        ELSE IF ~matches.ok THEN [val |-> 0, err |-> "parse"]
        ELSE IF ~ScanInt(matches.sub).ok THEN [val |-> 0, err |-> "parse"]
        ELSE [val |-> ScanInt(matches.sub).val, err |-> "nil"]

\* (mutant) the registration parser with roaming taken for home
RegStatusOf_RoamingIsHome(code) ==
    IF code \in RegStatusKeys
    THEN (IF code = <<"5">> THEN "home" ELSE networkRegStatusMap(code))
    ELSE "unknown"

\* the lookup of getNetworkRegistrationStatus and its default
RegStatusOf(code) ==
    IF code \in RegStatusKeys THEN networkRegStatusMap(code) ELSE "unknown"

getNetworkRegistrationStatus(f) ==
    IF f.err # "nil" THEN [val |-> "", err |-> "send"]
    ELSE LET matches == FindCREG(Response(f))
         IN  IF ~matches.ok THEN [val |-> "", err |-> "parse"]
             ELSE [val |-> RegStatusOf(matches.sub), err |-> "nil"]

getSIMStatus(f) ==
    IF f.err # "nil" THEN [val |-> "", err |-> "send"]
    ELSE [val |-> CASE Contains(Response(f), T_READY)  -> "ready"
                    [] Contains(Response(f), T_SIMPIN) -> "pin"
                    [] Contains(Response(f), T_SIMPUK) -> "puk"
                    [] OTHER -> "unknown",
          err |-> "nil"]

getOperatorName(f) ==
    IF f.err # "nil" THEN [val |-> <<>>, err |-> "send"]
    ELSE LET matches == FindCOPS(Response(f))
         IN  IF ~matches.ok THEN [val |-> <<>>, err |-> "parse"]
             ELSE [val |-> matches.sub, err |-> "nil"]

\* the trimmed lines of the response that getIMEI accepts, in order
IMEICandidates(f) ==
    LET lines == SplitLines(Response(f))
    IN  SelectSeq([k \in 1..Len(lines) |-> TrimSpace(lines[k])], IsIMEI)

getIMEI(f) ==
    IF f.err # "nil" THEN [val |-> <<>>, err |-> "send"]
    ELSE IF IMEICandidates(f) = <<>> THEN [val |-> <<>>, err |-> "parse"]
    ELSE [val |-> Head(IMEICandidates(f)), err |-> "nil"]

(***************************************************************************)
(* The cron job of initScheduler: StartNetworkMonitoring under TryLock.    *)
(***************************************************************************)
Jobs == {"job1", "job2"}

\* the most often the schedule fires in a run
MaxTicks == 2

T_CSQ  == <<"A", "T", "+", "C", "S", "Q">>
T_CREG == <<"A", "T", "+", "C", "R", "E", "G", "?">>
T_CPIN == <<"A", "T", "+", "C", "P", "I", "N", "?">>
T_COPS == <<"A", "T", "+", "C", "O", "P", "S", "?">>
T_CGSN == <<"A", "T", "+", "C", "G", "S", "N">>

\* (mutant) the queries with the registration asked first
Queries_CregFirst == <<"creg", "csq", "cpin", "cops", "cgsn">>

\* the queries of CheckNetworkStatus, in its order
Queries == <<"csq", "creg", "cpin", "cops", "cgsn">>

QueryCommand(q) ==
    CASE q = "csq"  -> T_CSQ
      [] q = "creg" -> T_CREG
      [] q = "cpin" -> T_CPIN
      [] q = "cops" -> T_COPS
      [] q = "cgsn" -> T_CGSN

QueryIndex(q) == CHOOSE k \in 1..Len(Queries) : Queries[k] = q

\* The schedule fires and cron runs the job in a goroutine of its own:
\* TryLock fails and the job returns, or it holds the mutex and
\* StartNetworkMonitoring calls the first query of CheckNetworkStatus.
Tick(j) ==
    /\ pc["init"] = "ready"
    /\ pc[j] = "idle"
    /\ ticks < MaxTicks
    /\ ticks' = ticks + 1
    /\ IF mu = "free"
       THEN /\ mu' = j
            /\ x' = [x EXCEPT ![j] = Call(QueryCommand(Queries[1]))]
            /\ pc' = [pc EXCEPT ![j] = Queries[1]]
            /\ snap' = [snap EXCEPT ![j] = NoSnap]
       ELSE UNCHANGED <<mu, x, pc, snap>>
    /\ UNCHANGED <<port, connected, rx, stale, todo, active, reply, monVars,
                 fed>>

\* status.X, _ = e.getX(): the field of query q set from the frame f of
\* its sendATCommand call
SetField(s, q, f) ==
    CASE q = "csq"  -> [s EXCEPT !.signal = getSignalStrength(f).val]
      [] q = "creg" -> [s EXCEPT !.reg = getNetworkRegistrationStatus(f).val]
      [] q = "cpin" -> [s EXCEPT !.sim = getSIMStatus(f).val]
      [] q = "cops" -> [s EXCEPT !.op = getOperatorName(f).val]
      [] q = "cgsn" -> [s EXCEPT !.imei = getIMEI(f).val]

\* A query of CheckNetworkStatus returns, its field is set and the next
\* query is called; after the last one the report is to be sent.
QueryReturn(j) ==
    /\ pc[j] \in {Queries[k] : k \in 1..Len(Queries)}
    /\ x[j].st = "ret"
    /\ snap' = [snap EXCEPT ![j] = SetField(@, pc[j], x[j])]
    /\ IF QueryIndex(pc[j]) < Len(Queries)
       THEN /\ x' = [x EXCEPT ![j] =
                        Call(QueryCommand(Queries[QueryIndex(pc[j]) + 1]))]
            /\ pc' = [pc EXCEPT ![j] = Queries[QueryIndex(pc[j]) + 1]]
       ELSE /\ x' = [x EXCEPT ![j] = NoFrame]
            /\ pc' = [pc EXCEPT ![j] = "notify"]
    /\ UNCHANGED <<port, connected, rx, stale, mu, ticks, todo, active,
                 reply, monVars, fed>>

\* (mutant) the test of the status with a signal of 5 taken for enough
isNetworkStatusNormal_AtLeast(status) ==
    /\ status.signal >= MinSignalStrength
    /\ status.reg = "home"
    /\ status.sim = "ready"

isNetworkStatusNormal(status) ==
    /\ status.signal > MinSignalStrength
    /\ status.reg = "home"
    /\ status.sim = "ready"

\* the statusText of the report
StatusText(status) ==
    IF isNetworkStatusNormal(status) THEN "normal" ELSE "abnormal"

\* the report handed to SendToWechat and whether the send succeeded
Report(status, sent) == [text |-> StatusText(status), ok |-> sent]

\* (mutant) the send of the report tried once more after a failure
SendReport_Retries(j, sent) ==
    snap' = [snap EXCEPT
                ![j].sent = IF sent THEN Append(@, Report(snap[j], sent))
                            ELSE Append(Append(@, Report(snap[j], sent)),
                                        Report(snap[j], sent)),
                ![j].ret = IF sent THEN "nil" ELSE "err"]

\* notify.SendToWechat(message) is called once; StartNetworkMonitoring
\* returns nil if it succeeded and the error if not
SendReport(j, sent) ==
    snap' = [snap EXCEPT ![j].sent = Append(@, Report(snap[j], sent)),
                         ![j].ret = IF sent THEN "nil" ELSE "err"]

\* The report is built and sent, and StartNetworkMonitoring returns.
Notify(j) ==
    /\ pc[j] = "notify"
    /\ \E sent \in BOOLEAN : SendReport(j, sent)
    /\ pc' = [pc EXCEPT ![j] = "unlock"]
    /\ UNCHANGED <<port, connected, rx, stale, x, mu, ticks, todo, active,
                 reply, monVars, fed>>

\* (mutant) the function of the cron job with the Unlock after the call
\* of StartNetworkMonitoring on the path without an error only
JobReturn_KeepsLockOnError(j) ==
    /\ pc[j] = "unlock"
    /\ mu' = IF snap[j].ret = "err" THEN mu ELSE "free"
    /\ pc' = [pc EXCEPT ![j] = "idle"]
    /\ snap' = [snap EXCEPT ![j] = NoSnap]
    /\ UNCHANGED <<port, connected, rx, stale, x, ticks, todo, active,
                 reply, monVars, fed>>

\* The function of the cron job returns: the error is logged and the
\* deferred Unlock runs.
JobReturn(j) ==
    /\ pc[j] = "unlock"
    /\ mu' = "free"
    /\ pc' = [pc EXCEPT ![j] = "idle"]
    /\ snap' = [snap EXCEPT ![j] = NoSnap]
    /\ UNCHANGED <<port, connected, rx, stale, x, ticks, todo, active,
                 reply, monVars, fed>>

(***************************************************************************)
(* The call goroutine of processPhoneCalls: makePhoneCall for every number *)
(* of phoneNumbers[1:].                                                    *)
(***************************************************************************)
Reqs == {"req1", "req2"}

N1 == <<"1">>
N2 == <<"2">>
N_BLANK == <<" ", "-">>

\* the number lists of the requests
Requests == {<<N1, N2>>, <<N1, N_BLANK, N2>>, <<N2>>}

\* processPhoneCalls with the module connected and the numbers parsed:
\* the goroutine is started on phoneNumbers[1:].
ProcessPhoneCalls(r, numbers) ==
    /\ pc["init"] = "ready"
    /\ connected
    /\ pc[r] = "idle"
    /\ numbers # <<>>
    /\ todo' = [todo EXCEPT ![r] = Tail(numbers)]
    /\ pc' = [pc EXCEPT ![r] = "loop"]
    /\ UNCHANGED <<port, connected, rx, stale, x, mu, ticks, active,
                 snap, reply, monVars, fed>>

\* The loop of the goroutine: it ends, or makePhoneCall calls MakeCall.
CallLoop(r) ==
    /\ pc[r] = "loop"
    /\ IF todo[r] = <<>>
       THEN /\ pc' = [pc EXCEPT ![r] = "done"]
            /\ UNCHANGED x
       ELSE /\ x' = [x EXCEPT ![r] = MakeCall(Head(todo[r]))]
            /\ pc' = [pc EXCEPT ![r] = "dial"]
    /\ UNCHANGED <<port, connected, rx, stale, appVars, monVars, fed>>

\* (mutant) makePhoneCall going on to the sleep and the hangup after a
\* MakeCall that returned an error
MakeCallReturn_AlwaysHangsUp(r) ==
    /\ pc[r] = "dial"
    /\ x[r].st = "ret"
    /\ active' = [active EXCEPT ![r] = IF DialAccepted(x[r]) THEN TRUE ELSE @]
    /\ pc' = [pc EXCEPT ![r] = "sleep"]
    /\ x' = [x EXCEPT ![r] = NoFrame]
    /\ UNCHANGED <<port, connected, rx, stale, mu, ticks, todo, snap, reply,
                 monVars, fed>>

\* MakeCall returns: on an error makePhoneCall returns, else the call is
\* on and makePhoneCall sleeps for the call duration.
MakeCallReturn(r) ==
    /\ pc[r] = "dial"
    /\ x[r].st = "ret"
    /\ IF DialAccepted(x[r])
       THEN /\ active' = [active EXCEPT ![r] = TRUE]
            /\ pc' = [pc EXCEPT ![r] = "sleep"]
            /\ UNCHANGED todo
       ELSE /\ todo' = [todo EXCEPT ![r] = Tail(@)]
            /\ pc' = [pc EXCEPT ![r] = "loop"]
            /\ UNCHANGED active
    /\ x' = [x EXCEPT ![r] = NoFrame]
    /\ UNCHANGED <<port, connected, rx, stale, mu, ticks, snap, reply,
                 monVars, fed>>

\* The sleep of makePhoneCall ends and HangupCall calls sendATCommand("ATH").
HangupCall(r) ==
    /\ pc[r] = "sleep"
    /\ x' = [x EXCEPT ![r] = Call(T_ATH)]
    /\ pc' = [pc EXCEPT ![r] = "hangup"]
    /\ UNCHANGED <<port, connected, rx, stale, appVars, monVars, fed>>

\* HangupCall returns, and makePhoneCall with it.
HangupReturn(r) ==
    /\ pc[r] = "hangup"
    /\ x[r].st = "ret"
    /\ active' = [active EXCEPT ![r] = IF HangupDone(x[r]) THEN FALSE ELSE @]
    /\ todo' = [todo EXCEPT ![r] = Tail(@)]
    /\ pc' = [pc EXCEPT ![r] = "loop"]
    /\ x' = [x EXCEPT ![r] = NoFrame]
    /\ UNCHANGED <<port, connected, rx, stale, mu, ticks, snap, reply,
                 monVars, fed>>

(***************************************************************************)
(* Spec: the program.  NewEC600N, then the cron job and the call           *)
(* goroutines of two requests, side by side on the one port.               *)
(***************************************************************************)
SysProcs == {"init"} \cup Jobs \cup Reqs

SysLines == {M_OK, M_CMEERROR}

Init ==
    /\ port = "nil"
    /\ connected = FALSE
    /\ rx = <<>>
    /\ stale = [p \in Procs |-> 0]
    /\ x = [p \in Procs |-> NoFrame]
    /\ pc = [p \in Procs |-> IF p = "init" THEN "new" ELSE "idle"]
    /\ mu = "free"
    /\ ticks = 0
    /\ todo = [p \in Procs |-> <<>>]
    /\ snap = [p \in Procs |-> NoSnap]
    /\ reply = [p \in Procs |-> NoReply]
    /\ active = [p \in Procs |-> FALSE]
    /\ mon = NoMonitor
    /\ mbuf = <<>>
    /\ cur = [st |-> "none", line |-> <<>>]
    /\ orphans = 0
    /\ cancelled = FALSE
    /\ chan = <<>>
    /\ fed = 0

Next ==
    \/ InitSerial
    \/ TestConnection
    \/ \E j \in Jobs : Tick(j) \/ QueryReturn(j) \/ Notify(j) \/ JobReturn(j)
    \/ \E r \in Reqs : \E numbers \in Requests : ProcessPhoneCalls(r, numbers)
    \/ \E r \in Reqs :
          CallLoop(r) \/ MakeCallReturn(r) \/ HangupCall(r) \/ HangupReturn(r)
    \/ \E p \in SysProcs : Flush(p) \/ Write(p) \/ ReadLine(p) \/ ReadFail(p)
    \/ \E l \in SysLines : ModemSend(l, MaxRxSys)

Spec == Init /\ [][Next]_vars

(***************************************************************************)
(* monitorCallStatus: the monitor goroutine and its read goroutines.       *)
(* The read goroutines share the monitor's bufio.Reader; their ReadString  *)
(* calls are taken one at a time.  Read goroutines of earlier iterations   *)
(* that still sit in ReadString are counted up to MaxOrphans, which stands *)
(* for "MaxOrphans or more".                                               *)
(***************************************************************************)
StatusChanCap == 1

LowerCase ==
    <<"a", "b", "c", "d", "e", "f", "g", "h", "i", "j", "k", "l", "m",
      "n", "o", "p", "q", "r", "s", "t", "u", "v", "w", "x", "y", "z">>

UpperCase ==
    <<"A", "B", "C", "D", "E", "F", "G", "H", "I", "J", "K", "L", "M",
      "N", "O", "P", "Q", "R", "S", "T", "U", "V", "W", "X", "Y", "Z">>

ToUpperChar(c) ==
    IF \E k \in 1..Len(LowerCase) : LowerCase[k] = c
    THEN UpperCase[CHOOSE k \in 1..Len(LowerCase) : LowerCase[k] = c]
    ELSE c

\* strings.ToUpper
ToUpper(s) == [k \in 1..Len(s) |-> ToUpperChar(s[k])]

T_NOCARRIER == <<"N", "O", " ", "C", "A", "R", "R", "I", "E", "R">>
T_BUSY      == <<"B", "U", "S", "Y">>
T_NOANSWER  == <<"N", "O", " ", "A", "N", "S", "W", "E", "R">>

\* (mutant) a switch that tests "CONNECT" before everything else
Classify_ConnectFirst(line) ==
    LET lineUpper == ToUpper(TrimSpace(line)) IN
    IF Contains(lineUpper, T_CONNECT) THEN "CONNECTED"
    ELSE IF Contains(lineUpper, T_NOCARRIER) THEN "NO_CARRIER"
    ELSE IF Contains(lineUpper, T_BUSY) THEN "BUSY"
    ELSE IF Contains(lineUpper, T_NOANSWER) THEN "NO_ANSWER"
    ELSE IF Contains(lineUpper, T_ERROR) THEN "ERROR"
    ELSE "none"

\* (mutant) a monitor that goes on after every status
EndsMonitor_Never(status) == FALSE

\* (mutant) a monitor that returns after every status
EndsMonitor_Always(status) == TRUE

\* the switch of monitorCallStatus on the trimmed, upper-cased line
Classify(line) ==
    LET lineUpper == ToUpper(TrimSpace(line)) IN
    IF Contains(lineUpper, T_NOCARRIER) THEN "NO_CARRIER"
    ELSE IF Contains(lineUpper, T_BUSY) THEN "BUSY"
    ELSE IF Contains(lineUpper, T_NOANSWER) THEN "NO_ANSWER"
    ELSE IF Contains(lineUpper, T_CONNECT) THEN "CONNECTED"
    ELSE IF Contains(lineUpper, T_ERROR) THEN "ERROR"
    ELSE "none"

\* the cases of the switch that return after the send
EndsMonitor(status) == status \in {"NO_CARRIER", "BUSY", "NO_ANSWER"}

NoReader == [st |-> "none", line |-> <<>>]

OneMoreOrphan == IF orphans < MaxOrphans THEN orphans + 1 ELSE orphans

\* monitorCallStatus(ctx): the channel is made and the goroutine started.
\* With no port it is to send CallStatusError and return.
StartMonitor ==
    /\ mon' = IF port = "nil"
              THEN [pc |-> "send", status |-> "ERROR", term |-> TRUE,
                    handed |-> FALSE]
              ELSE [pc |-> "top", status |-> "none", term |-> FALSE,
                    handed |-> FALSE]
    /\ mbuf' = <<>>
    /\ cur' = NoReader
    /\ cancelled' = FALSE
    /\ chan' = <<>>
    /\ orphans' = IF cur.st = "reading" THEN OneMoreOrphan ELSE orphans

\* The goroutine returns and the deferred close(statusChan) runs.  A read
\* goroutine still in ReadString stays behind.
MonitorReturns ==
    /\ mon' = [mon EXCEPT !.pc = "closed", !.status = "none", !.term = FALSE]
    /\ cur' = NoReader
    /\ orphans' = IF cur.st = "reading" THEN OneMoreOrphan ELSE orphans

\* The first select of the loop finds the context done: the goroutine
\* returns.
LoopCancelled ==
    /\ mon.pc = "top"
    /\ cancelled
    /\ MonitorReturns
    /\ UNCHANGED <<port, connected, rx, stale, x, pc, appVars, mbuf,
                   cancelled, chan, fed>>

\* The first select of the loop takes its default: a read goroutine is
\* started on fresh channels and the second select is entered.
LoopReads ==
    /\ mon.pc = "top"
    /\ ~cancelled
    /\ mon' = [mon EXCEPT !.pc = "wait"]
    /\ cur' = [st |-> "reading", line |-> <<>>]
    /\ orphans' = IF cur.st = "reading" THEN OneMoreOrphan ELSE orphans
    /\ UNCHANGED <<port, connected, rx, stale, x, pc, appVars, mbuf,
                   cancelled, chan, fed>>

\* (mutant) a loop without the first select
MonitorLoop_NoFirstSelect ==
    /\ mon.pc = "top"
    /\ mon' = [mon EXCEPT !.pc = "wait"]
    /\ cur' = [st |-> "reading", line |-> <<>>]
    /\ orphans' = IF cur.st = "reading" THEN OneMoreOrphan ELSE orphans
    /\ UNCHANGED <<port, connected, rx, stale, x, pc, appVars, mbuf,
                   cancelled, chan, fed>>

\* the first select of the loop
MonitorLoop == LoopCancelled \/ LoopReads

\* reader.ReadString('\n') of the current read goroutine returns a line,
\* which goes to lineChan.
ReaderLine ==
    /\ cur.st = "reading"
    /\ IF mbuf # <<>>
       THEN /\ cur' = [st |-> "line", line |-> Head(mbuf) \o CRLF]
            /\ mbuf' = Tail(mbuf)
            /\ UNCHANGED <<rx, stale>>
       ELSE /\ rx # <<>>
            /\ cur' = [st |-> "line", line |-> Head(rx) \o CRLF]
            /\ mbuf' = Tail(rx)
            /\ rx' = <<>>
            /\ stale' = [q \in Procs |-> 0]
    /\ UNCHANGED <<port, connected, x, pc, appVars, mon, orphans,
                   cancelled, chan, fed>>

\* ReadString of the current read goroutine fails: the error goes to errChan.
ReaderError ==
    /\ cur.st = "reading"
    /\ mbuf = <<>>
    /\ cur' = [st |-> "err", line |-> <<>>]
    /\ UNCHANGED <<port, connected, rx, stale, x, pc, appVars, mon, mbuf,
                   orphans, cancelled, chan, fed>>

\* A read goroutine of an earlier iteration gets a line, or an error: it
\* goes to a channel nobody receives from.
OrphanReads ==
    /\ orphans > 0
    /\ \/ /\ mbuf # <<>>
          /\ mbuf' = Tail(mbuf)
          /\ UNCHANGED <<rx, stale>>
       \/ /\ mbuf = <<>>
          /\ rx # <<>>
          /\ mbuf' = Tail(rx)
          /\ rx' = <<>>
          /\ stale' = [q \in Procs |-> 0]
       \/ /\ mbuf = <<>>
          /\ UNCHANGED <<rx, stale, mbuf>>
    /\ orphans' \in {orphans - 1} \cup
                    (IF orphans = MaxOrphans THEN {orphans} ELSE {})
    /\ UNCHANGED <<port, connected, x, pc, appVars, mon, cur, cancelled,
                   chan, fed>>

\* what the steps of the monitor goroutine leave alone
OnlyMonitor ==
    UNCHANGED <<port, connected, rx, stale, x, pc, appVars, mbuf,
                cancelled, fed>>

\* The second select of the loop finds the context done.
SelectCancelled ==
    /\ mon.pc = "wait"
    /\ cancelled
    /\ MonitorReturns
    /\ UNCHANGED chan
    /\ OnlyMonitor

\* The second select of the loop receives a line: the switch finds the
\* status to send, or none.
SelectLine ==
    /\ mon.pc = "wait"
    /\ cur.st = "line"
    /\ mon' = IF Classify(cur.line) = "none"
              THEN [mon EXCEPT !.pc = "top"]
              ELSE [mon EXCEPT !.pc = "send",
                               !.status = Classify(cur.line),
                               !.term = EndsMonitor(Classify(cur.line))]
    /\ cur' = NoReader
    /\ UNCHANGED <<orphans, chan>>
    /\ OnlyMonitor

\* The second select of the loop receives an error: sleep, continue.
SelectError ==
    /\ mon.pc = "wait"
    /\ cur.st = "err"
    /\ mon' = [mon EXCEPT !.pc = "top"]
    /\ cur' = NoReader
    /\ UNCHANGED <<orphans, chan>>
    /\ OnlyMonitor

\* (mutant) a timeout that ends the monitor
SelectTimeout_Returns ==
    /\ mon.pc = "wait"
    /\ MonitorReturns
    /\ UNCHANGED chan
    /\ OnlyMonitor

\* The 500 ms of the second select are over: continue.  The read goroutine
\* and its channels are left behind.
SelectTimeout ==
    /\ mon.pc = "wait"
    /\ mon' = [mon EXCEPT !.pc = "top"]
    /\ UNCHANGED <<cur, orphans, chan>>
    /\ OnlyMonitor

\* the second select of the loop
MonitorSelect ==
    SelectCancelled \/ SelectLine \/ SelectError \/ SelectTimeout

\* The select around the send of a status: the status goes to statusChan.
SendStatus ==
    /\ mon.pc = "send"
    /\ Len(chan) < StatusChanCap
    /\ chan' = Append(chan, mon.status)
    /\ IF mon.term
       THEN MonitorReturns
       ELSE /\ mon' = [mon EXCEPT !.pc = "top", !.status = "none"]
            /\ UNCHANGED <<cur, orphans>>
    /\ OnlyMonitor

\* The select around the send of a status finds the context done.
SendCancelled ==
    /\ mon.pc = "send"
    /\ cancelled
    /\ MonitorReturns
    /\ UNCHANGED chan
    /\ OnlyMonitor

\* the select around the send of a status
MonitorSend == SendStatus \/ SendCancelled

\* The caller that was given statusChan receives a status.
Receive ==
    /\ mon.handed
    /\ chan # <<>>
    /\ chan' = Tail(chan)
    /\ UNCHANGED <<port, connected, rx, stale, x, pc, appVars, mon, mbuf,
                   cur, orphans, cancelled, fed>>

(***************************************************************************)
(* A client of the driver that calls MakeCallWithMonitor, MakeCall and     *)
(* HangupCall, one after the other, in any order.                          *)
(***************************************************************************)
\* MakeCallWithMonitor up to its sendATCommand: an error before the monitor
\* is started, or the monitor is started and the dial command is called.
MakeCallWithMonitor(p, number) ==
    /\ pc[p] = "idle"
    /\ mon.pc \in {"none", "closed"}
    /\ x' = [x EXCEPT ![p] = Dial(number)]
    /\ IF Dial(number).st = "ret"
       THEN UNCHANGED monVars
       ELSE StartMonitor
    /\ pc' = [pc EXCEPT ![p] = "mdial"]
    /\ UNCHANGED <<port, connected, rx, stale, appVars, fed>>

\* (mutant) MakeCallWithMonitor with cancel() after an error of
\* sendATCommand only, not after a dial that was rejected
MakeCallWithMonitorReturn_NoCancelOnReject(p) ==
    /\ pc[p] = "mdial"
    /\ x[p].st = "ret"
    /\ IF x[p].err \in {"port", "empty"}
       THEN UNCHANGED <<cancelled, mon, active>>
       ELSE IF MakeCallResult(x[p]).kind = "nil"
       THEN /\ mon' = [mon EXCEPT !.handed = TRUE]
            /\ active' = [active EXCEPT ![p] = TRUE]
            /\ UNCHANGED cancelled
       ELSE /\ cancelled' = (cancelled \/ MakeCallResult(x[p]).kind = "send")
            /\ UNCHANGED <<mon, active>>
    /\ x' = [x EXCEPT ![p] = NoFrame]
    /\ pc' = [pc EXCEPT ![p] = "idle"]
    /\ UNCHANGED <<port, connected, rx, stale, mu, ticks, todo, snap,
                 reply, mbuf, cur, orphans, chan, fed>>

\* MakeCallWithMonitor returns: the channel when the dial was accepted;
\* else an error, after cancel() when the monitor had been started.
MakeCallWithMonitorReturn(p) ==
    /\ pc[p] = "mdial"
    /\ x[p].st = "ret"
    /\ IF x[p].err \in {"port", "empty"}
       THEN UNCHANGED <<cancelled, mon, active>>
       ELSE IF MakeCallResult(x[p]).kind = "nil"
       THEN /\ mon' = [mon EXCEPT !.handed = TRUE]
            /\ active' = [active EXCEPT ![p] = TRUE]
            /\ UNCHANGED cancelled
       ELSE /\ cancelled' = TRUE
            /\ UNCHANGED <<mon, active>>
    /\ x' = [x EXCEPT ![p] = NoFrame]
    /\ pc' = [pc EXCEPT ![p] = "idle"]
    /\ UNCHANGED <<port, connected, rx, stale, mu, ticks, todo, snap,
                 reply, mbuf, cur, orphans, chan, fed>>

\* The client calls MakeCall.
ClientMakeCall(p, number) ==
    /\ pc[p] = "idle"
    /\ x' = [x EXCEPT ![p] = MakeCall(number)]
    /\ pc' = [pc EXCEPT ![p] = "dial"]
    /\ UNCHANGED <<port, connected, rx, stale, appVars, monVars, fed>>

\* MakeCall returns to the client.
ClientMakeCallReturn(p) ==
    /\ pc[p] = "dial"
    /\ x[p].st = "ret"
    /\ active' = [active EXCEPT ![p] =
                      IF MakeCallResult(x[p]).kind = "nil" THEN TRUE ELSE @]
    /\ x' = [x EXCEPT ![p] = NoFrame]
    /\ pc' = [pc EXCEPT ![p] = "idle"]
    /\ UNCHANGED <<port, connected, rx, stale, mu, ticks, todo, snap,
                 reply, monVars, fed>>

\* The client calls HangupCall.
ClientHangupCall(p) ==
    /\ pc[p] = "idle"
    /\ x' = [x EXCEPT ![p] = Call(T_ATH)]
    /\ pc' = [pc EXCEPT ![p] = "hangup"]
    /\ UNCHANGED <<port, connected, rx, stale, appVars, monVars, fed>>

\* HangupCall returns to the client.
ClientHangupReturn(p) ==
    /\ pc[p] = "hangup"
    /\ x[p].st = "ret"
    /\ active' = [active EXCEPT ![p] =
                      IF HangupResult(x[p]).kind = "nil" THEN FALSE ELSE @]
    /\ x' = [x EXCEPT ![p] = NoFrame]
    /\ pc' = [pc EXCEPT ![p] = "idle"]
    /\ UNCHANGED <<port, connected, rx, stale, mu, ticks, todo, snap,
                 reply, monVars, fed>>

(***************************************************************************)
(* SpecMon: the driver after a successful NewEC600N, one client, the call  *)
(* monitor, and the module sending up to MaxFeedMon lines.                 *)
(***************************************************************************)
NumberChars == {"1", "-", " ", "\t"}

\* the phone numbers the client passes
Numbers == UNION {[1..n -> NumberChars] : n \in 0..MaxNumLen}

MonLines == {M_OK, M_NOCARRIER, M_RING, M_CONNECT, M_CMEERROR}

InitMon ==
    /\ port = "open"
    /\ connected = TRUE
    /\ rx = <<>>
    /\ stale = [p \in Procs |-> 0]
    /\ x = [p \in Procs |-> NoFrame]
    /\ pc = [p \in Procs |-> "idle"]
    /\ mu = "free"
    /\ ticks = 0
    /\ todo = [p \in Procs |-> <<>>]
    /\ snap = [p \in Procs |-> NoSnap]
    /\ reply = [p \in Procs |-> NoReply]
    /\ active = [p \in Procs |-> FALSE]
    /\ mon = NoMonitor
    /\ mbuf = <<>>
    /\ cur = NoReader
    /\ orphans = 0
    /\ cancelled = FALSE
    /\ chan = <<>>
    /\ fed = 0

NextMon ==
    \/ \E number \in Numbers : MakeCallWithMonitor("cli", number)
    \/ MakeCallWithMonitorReturn("cli")
    \/ \E number \in Numbers : ClientMakeCall("cli", number)
    \/ ClientMakeCallReturn("cli")
    \/ ClientHangupCall("cli")
    \/ ClientHangupReturn("cli")
    \/ Flush("cli")
    \/ Write("cli")
    \/ ReadLine("cli")
    \/ ReadFail("cli")
    \/ MonitorLoop
    \/ ReaderLine
    \/ ReaderError
    \/ OrphanReads
    \/ MonitorSelect
    \/ MonitorSend
    \/ Receive
    \/ \E l \in MonLines : ModemFeedUpTo(l, MaxRx, MaxFeedMon)

SpecMon == InitMon /\ [][NextMon]_vars

(***************************************************************************)
(* Claims about the callers of sendATCommand side by side (checked under   *)
(* Spec).                                                                  *)
(***************************************************************************)
\* the call of p has flushed the port and has not yet ended its reading
Outstanding(p) == x[p].st \in {"write", "read"}

\* some call that was accepted is neither hung up nor ended
AnyActive == \E p \in Procs : active[p]

\* this step, p writes its command to the port
Writes(p) == x[p].st = "write" /\ x'[p].st = "read"

IsDial(command) == HasPrefixAt(command, T_ATD, 1)

\* C1: at most one command exchange is outstanding on the port at any time.
C1_OneExchangeAtATime ==
    Cardinality({p \in Procs : Outstanding(p)}) <= 1

\* C3: a tick of the schedule that fires while a call is active is skipped,
\* and the network check writes no command while a call is active.
C3_NoCheckDuringCall ==
    [][\A j \in Jobs :
          ((pc[j] = "idle" /\ pc'[j] # "idle") \/ Writes(j)) => ~AnyActive]_vars

\* C4: a dial command is written only when no call is active.
C4_DialOnlyWhenIdle ==
    [][\A p \in Procs : (Writes(p) /\ IsDial(x[p].cmd)) => ~AnyActive]_vars

(***************************************************************************)
(* Claims about the call monitor and the dial (checked under SpecMon and   *)
(* FairSpecMon).                                                           *)
(***************************************************************************)
\* The goroutines run on: every step of the program that can be taken is
\* taken in the end.  The module need not send and no read need fail.
FairSpecMon ==
    /\ SpecMon
    /\ WF_vars(Flush("cli"))
    /\ WF_vars(Write("cli"))
    /\ WF_vars(ReadLine("cli"))
    /\ WF_vars(MakeCallWithMonitorReturn("cli"))
    /\ WF_vars(ClientMakeCallReturn("cli"))
    /\ WF_vars(ClientHangupReturn("cli"))
    /\ WF_vars(MonitorLoop)
    /\ WF_vars(ReaderLine)
    /\ WF_vars(MonitorSelect)
    /\ WF_vars(MonitorSend)

\* a read goroutine of the monitor sits in ReadString on the port
MonitorReading == cur.st = "reading" \/ orphans > 0

\* C2: no read of the call monitor is under way while a sendATCommand call
\* is between its flush and the end of its reading.
C2_MonitorApartFromCommands ==
    \A p \in Procs : Outstanding(p) => ~MonitorReading

\* C9: every sendATCommand call returns, also when the module sends
\* nothing, and every wait of the monitor for a line ends.
C9_NothingBlocksForever ==
    /\ (x["cli"].st \in {"flush", "write", "read"}) ~> (x["cli"].st = "ret")
    /\ (mon.pc = "wait") ~> (mon.pc # "wait")

\* C10: a dial whose number is empty after the cleaning returns the error of
\* the empty number without any operation on the port, and
\* MakeCallWithMonitor starts no monitor for it.
C10_EmptyNumberTouchesNothing ==
    \A p \in Procs :
        x[p].blank =>
            /\ x[p].st = "ret"
            /\ x[p].err = "empty"
            /\ x[p].ops = <<>>
            /\ pc[p] = "mdial" => mon.pc \in {"none", "closed"}

\* C10 happens: MakeCallWithMonitor was called with such a number after an
\* earlier monitored call, and is about to return its error.
C10_Witness ==
    /\ pc["cli"] = "mdial"
    /\ x["cli"].blank
    /\ x["cli"].err = "empty"
    /\ mon.pc = "closed"

(***************************************************************************)
(* Claims about one sendATCommand call (checked under SpecCmd).            *)
(***************************************************************************)
\* the frames of calls that reached the port
Frames == {x[p] : p \in Procs}

NoSentinelIn(chunks) ==
    \A k \in 1..Len(chunks) :
        ~Contains(chunks[k], T_OK) /\ ~Contains(chunks[k], T_ERROR)

\* C5: within one sendATCommand call the operations on the port come in the
\* order flush, write, then reads only, and no line that was pending before
\* the call is taken by the call's reader, so none is in its response.
C5_FlushWriteThenReads ==
    \A f \in Frames :
        /\ \A k \in 1..Len(f.ops) :
              f.ops[k] = (IF k = 1 THEN "flush"
                          ELSE IF k = 2 THEN "write" ELSE "read")
        /\ ~f.old

\* C5 happens: a call made with input pending returned a response of lines
\* that all arrived after its flush.
C5_Witness ==
    \E f \in Frames :
        /\ f.st = "ret" /\ f.err = "nil"
        /\ f.pre > 0
        /\ Len(f.resp) >= 2

\* C6: a sendATCommand call does at most 10 line reads and accumulates at
\* most 10 lines, and when its reading ended with no line containing "OK"
\* or "ERROR" it returns the accumulated text with a nil error.
C6_AtMostTenLines ==
    \A f \in Frames :
        /\ Cardinality({k \in 1..Len(f.ops) : f.ops[k] = "read"}) <= 10
        /\ Len(f.resp) <= 10
        /\ (f.st = "ret" /\ Len(f.ops) >= 3 /\ NoSentinelIn(f.resp))
              => (f.err = "nil" /\ Response(f) = Flatten(f.resp))

\* C6 happens: ten lines without a sentinel were read and returned.
C6_Witness ==
    \E f \in Frames :
        /\ f.st = "ret" /\ f.err = "nil"
        /\ Len(f.resp) = 10
        /\ NoSentinelIn(f.resp)
        /\ Len(Response(f)) > 0

\* C7: a call that read a line containing "OK" or "ERROR" returns the lines
\* up to and including the first such line, and has taken no later line
\* from the port.
C7_StopsAtFirstSentinel ==
    \A f \in Frames :
        (f.st = "ret" /\ f.err = "nil" /\ ~NoSentinelIn(f.resp)) =>
            /\ ~NoSentinelIn(<<f.resp[Len(f.resp)]>>)
            /\ NoSentinelIn(SubSeq(f.resp, 1, Len(f.resp) - 1))
            /\ Response(f) = Flatten(f.resp)
            /\ f.rbuf = <<>>

\* C8: a failed flush or write ends the call with an error and no later
\* operation on the port, and a call one of whose line reads failed returns
\* an error.
C8_FailuresSurfaced ==
    \A f \in Frames :
        /\ (f.st = "ret" /\ f.err = "flush") => f.ops = <<"flush">>
        /\ (f.st = "ret" /\ f.err = "write") => f.ops = <<"flush", "write">>
        /\ (Len(f.ops) >= 1 /\ f.ops[Len(f.ops)] = "flush" /\ f.st = "ret")
              => f.err = "flush"
        /\ (Len(f.ops) >= 1 /\ f.ops[Len(f.ops)] = "write" /\ f.st = "ret")
              => f.err = "write"
        /\ (f.st = "ret" /\ f.rdErr) => f.err # "nil"

(***************************************************************************)
(* SpecDial: one client that calls MakeCall with one number, over and      *)
(* over.  The number is drawn at the start and kept in todo["cli"].        *)
(***************************************************************************)
\* the longest number dialled under SpecDial
MaxDialLen == 4

DialChars == {"1", "-", " ", "\t"}

DialNumbers == UNION {[1..n -> DialChars] : n \in 0..MaxDialLen}

\* the number the client dials
DialInput == Head(todo["cli"])

InitDial ==
    /\ port = "open"
    /\ connected = TRUE
    /\ rx = <<>>
    /\ stale = [p \in Procs |-> 0]
    /\ x = [p \in Procs |-> NoFrame]
    /\ pc = [p \in Procs |-> "idle"]
    /\ mu = "free"
    /\ ticks = 0
    /\ \E number \in DialNumbers :
          todo = [p \in Procs |-> IF p = "cli" THEN <<number>> ELSE <<>>]
    /\ snap = [p \in Procs |-> NoSnap]
    /\ reply = [p \in Procs |-> NoReply]
    /\ active = [p \in Procs |-> FALSE]
    /\ mon = NoMonitor
    /\ mbuf = <<>>
    /\ cur = NoReader
    /\ orphans = 0
    /\ cancelled = FALSE
    /\ chan = <<>>
    /\ fed = 0

NextDial ==
    \/ ClientMakeCall("cli", DialInput)
    \/ ClientMakeCallReturn("cli")
    \/ Flush("cli")
    \/ Write("cli")
    \/ ReadLine("cli")
    \/ ReadFail("cli")
    \/ \E l \in SysLines : ModemSend(l, MaxRxSys)

SpecDial == InitDial /\ [][NextDial]_vars

(***************************************************************************)
(* Claims about the dial command (checked under SpecDial).                 *)
(***************************************************************************)
\* the index of the first and of the last character of s that is no white
\* space (Len(s) + 1 and 0 when there is none)
FirstInk(s) ==
    IF \E k \in 1..Len(s) : ~IsSpace(s[k])
    THEN CHOOSE k \in 1..Len(s) :
            ~IsSpace(s[k]) /\ \A j \in 1..(k - 1) : IsSpace(s[j])
    ELSE Len(s) + 1

LastInk(s) ==
    IF \E k \in 1..Len(s) : ~IsSpace(s[k])
    THEN CHOOSE k \in 1..Len(s) :
            ~IsSpace(s[k]) /\ \A j \in (k + 1)..Len(s) : IsSpace(s[j])
    ELSE 0

\* s without the white space around it and without any dash or space
Cleaned(s) ==
    SelectSeq(SubSeq(s, FirstInk(s), LastInk(s)),
              LAMBDA ch : ch \notin {"-", " "})

\* the number inside a dial command
DialledNumber(command) == SubSeq(command, Len(T_ATD) + 1, Len(command) - 1)

\* the call of p has written its command
Written(p) == \E k \in 1..Len(x[p].ops) : x[p].ops[k] = "write"

\* C11: the command MakeCall writes is "ATD", the cleaned input, ";", and
\* cleaning the number in the command once more changes nothing.
C11_DialCommand ==
    (pc["cli"] = "dial" /\ Written("cli")) =>
        /\ x["cli"].cmd = T_ATD \o Cleaned(DialInput) \o <<";">>
        /\ Sanitize(DialledNumber(x["cli"].cmd)) = DialledNumber(x["cli"].cmd)

(***************************************************************************)
(* Claims about the results of the dial and of the hangup (checked under   *)
(* SpecMon).                                                               *)
(***************************************************************************)
\* some line of the response of f holds the text
SomeLineHas(f, text) ==
    \E k \in 1..Len(f.resp) : Contains(f.resp[k], text)

\* the exchange of the call of p is over, without an error of sendATCommand
Answered(p) == x[p].st = "ret" /\ x[p].err = "nil" /\ Written(p)

\* C12: after the exchange of a dial, MakeCall and MakeCallWithMonitor
\* return nil exactly when a line of the response holds "OK" or "CONNECT",
\* and else the dial error with the whole response in it.
C12_DialResult ==
    \A p \in Procs :
        (pc[p] \in {"dial", "mdial"} /\ Answered(p)) =>
            IF SomeLineHas(x[p], T_OK) \/ SomeLineHas(x[p], T_CONNECT)
            THEN MakeCallResult(x[p]).kind = "nil"
            ELSE /\ MakeCallResult(x[p]).kind = "dial"
                 /\ MakeCallResult(x[p]).text = Flatten(x[p].resp)

\* C12 happens: MakeCallWithMonitor is about to return the dial error for a
\* response that ended on an "ERROR" line.
C12_Witness ==
    /\ pc["cli"] = "mdial"
    /\ Answered("cli")
    /\ SomeLineHas(x["cli"], T_ERROR)
    /\ MakeCallResult(x["cli"]).kind = "dial"
    /\ MakeCallResult(x["cli"]).text # <<>>

\* how many times the call of p has written to the port
WriteCount(p) == Cardinality({k \in 1..Len(x[p].ops) : x[p].ops[k] = "write"})

\* C13: HangupCall writes the command "ATH", once, and after the exchange
\* it returns nil exactly when a line of the response holds "OK", and else
\* the hangup error with the whole response in it.
C13_HangupResult ==
    \A p \in Procs :
        pc[p] = "hangup" =>
            /\ x[p].st # "ret" => x[p].cmd = T_ATH
            /\ WriteCount(p) <= 1
            /\ Answered(p) =>
                 /\ x[p].cmd = T_ATH
                 /\ WriteCount(p) = 1
                 /\ IF SomeLineHas(x[p], T_OK)
                    THEN HangupResult(x[p]).kind = "nil"
                    ELSE /\ HangupResult(x[p]).kind = "hangup"
                         /\ HangupResult(x[p]).text = Flatten(x[p].resp)

\* C13 happens: HangupCall is about to return the hangup error for a
\* response without "OK".
C13_Witness ==
    /\ pc["cli"] = "hangup"
    /\ Answered("cli")
    /\ x["cli"].resp # <<>>
    /\ ~SomeLineHas(x["cli"], T_OK)
    /\ HangupResult(x["cli"]).kind = "hangup"

(***************************************************************************)
(* SpecWatch: one monitor goroutine of monitorCallStatus on an open port,  *)
(* its channel in the hands of a consumer that receives when it likes, the *)
(* module sending up to MaxFeed lines, the context cancelled at any time.  *)
(***************************************************************************)
\* a line of the module in lower case, "CONNECT" before "NO CARRIER"
M_MIXED ==
    <<"c", "o", "n", "n", "e", "c", "t", " ",
      "n", "o", " ", "c", "a", "r", "r", "i", "e", "r">>

WatchLines ==
    {M_RING, M_NOCARRIER, M_BUSY, M_NOANSWER, M_CONNECT, M_CMEERROR, M_MIXED}

\* cancel() of the context of the monitor
Cancel ==
    /\ mon.pc \notin {"none", "closed"}
    /\ ~cancelled
    /\ cancelled' = TRUE
    /\ UNCHANGED <<port, connected, rx, stale, x, pc, appVars, mon, mbuf,
                   cur, orphans, chan, fed>>

InitWatch ==
    /\ port = "open"
    /\ connected = TRUE
    /\ rx = <<>>
    /\ stale = [p \in Procs |-> 0]
    /\ x = [p \in Procs |-> NoFrame]
    /\ pc = [p \in Procs |-> "idle"]
    /\ mu = "free"
    /\ ticks = 0
    /\ todo = [p \in Procs |-> <<>>]
    /\ snap = [p \in Procs |-> NoSnap]
    /\ reply = [p \in Procs |-> NoReply]
    /\ active = [p \in Procs |-> FALSE]
    /\ mon = [pc |-> "top", status |-> "none", term |-> FALSE,
              handed |-> TRUE]
    /\ mbuf = <<>>
    /\ cur = NoReader
    /\ orphans = 0
    /\ cancelled = FALSE
    /\ chan = <<>>
    /\ fed = 0

NextWatch ==
    \/ MonitorLoop
    \/ ReaderLine
    \/ ReaderError
    \/ OrphanReads
    \/ MonitorSelect
    \/ MonitorSend
    \/ Receive
    \/ Cancel
    \/ \E l \in WatchLines : ModemFeed(l, MaxRx)

SpecWatch == InitWatch /\ [][NextWatch]_vars

\* The goroutine of the monitor runs on, and the timer of the second select
\* fires when nothing else ended the select; the module, the consumer and
\* the canceller do what they like.
FairSpecWatch ==
    /\ SpecWatch
    /\ WF_vars(MonitorLoop)
    /\ WF_vars(SelectTimeout)
    /\ WF_vars(MonitorSend)

(***************************************************************************)
(* Claims about the monitor goroutine (checked under SpecWatch and         *)
(* FairSpecWatch).                                                         *)
(***************************************************************************)
\* the key words of the call states in the order of their rank, each with
\* its status
KeyWords ==
    << <<T_NOCARRIER, "NO_CARRIER">>, <<T_BUSY, "BUSY">>,
       <<T_NOANSWER, "NO_ANSWER">>, <<T_CONNECT, "CONNECTED">>,
       <<T_ERROR, "ERROR">> >>

\* the same character, or the same letter in the two cases
SameLetter(a, b) ==
    \/ a = b
    \/ \E k \in 1..Len(LowerCase) : {a, b} = {LowerCase[k], UpperCase[k]}

\* the line holds the word, in whatever case
HasWord(line, word) ==
    \E k \in 0..(Len(line) - Len(word)) :
        \A j \in 1..Len(word) : SameLetter(line[k + j], word[j])

\* the status of the first key word, by rank, that the line holds
StatusOf(line) ==
    IF \E i \in 1..Len(KeyWords) : HasWord(line, KeyWords[i][1])
    THEN KeyWords[CHOOSE i \in 1..Len(KeyWords) :
                     /\ HasWord(line, KeyWords[i][1])
                     /\ \A h \in 1..(i - 1) : ~HasWord(line, KeyWords[h][1])][2]
    ELSE "none"

TerminalStatuses == {"NO_CARRIER", "BUSY", "NO_ANSWER"}

\* this step puts a status on the channel
Emits == Len(chan') > Len(chan)

\* C14: the monitor goes on to send, for a line it received, the status of
\* the first key word by rank that the line holds in whatever case, and
\* sends nothing for a line without a key word.
C14_FirstKeyWordDecides ==
    [][/\ SelectLine =>
            IF StatusOf(cur.line) = "none"
            THEN mon'.pc = "top" /\ ~Emits
            ELSE mon'.pc = "send" /\ mon'.status = StatusOf(cur.line)
       /\ SendStatus => chan' = Append(chan, mon.status)]_vars

\* C14 happens: the monitor has received the line that holds "connect"
\* before "no carrier" in lower case.
C14_Witness ==
    /\ mon.pc = "wait"
    /\ cur.st = "line"
    /\ cur.line = M_MIXED \o CRLF
    /\ ~cancelled

\* C15: for a line with "NO CARRIER", "BUSY" or "NO ANSWER" the monitor goes
\* on to send that status; when it has sent it the goroutine returns and the
\* channel is closed; nothing is sent on a closed channel.
C15_TerminalStatusEndsMonitor ==
    [][/\ (SelectLine /\ StatusOf(cur.line) \in TerminalStatuses) =>
            mon'.pc = "send" /\ mon'.status = StatusOf(cur.line)
       /\ (SendStatus /\ mon.status \in TerminalStatuses) =>
            mon'.pc = "closed" /\ chan' = Append(chan, mon.status)
       /\ mon.pc = "closed" => mon'.pc = "closed" /\ ~Emits]_vars

\* C15 happens: "BUSY" was sent and the channel closed, without a cancel.
C15_Witness ==
    /\ mon.pc = "closed"
    /\ chan = <<"BUSY">>
    /\ ~cancelled

\* C16: for a line with "CONNECT" or "ERROR" and no key word of a higher
\* rank the monitor goes on to send that status, and when it has sent it
\* the loop goes on with the channel open.
C16_ConnectAndErrorKeepScanning ==
    [][/\ (SelectLine /\ StatusOf(cur.line) \in {"CONNECTED", "ERROR"}) =>
            mon'.pc = "send" /\ mon'.status = StatusOf(cur.line)
       /\ (SendStatus /\ mon.status \in {"CONNECTED", "ERROR"}) =>
            mon'.pc = "top" /\ chan' = Append(chan, mon.status)]_vars

\* C16 happens: "CONNECT" was sent and is still in the channel, and a later
\* line made the monitor go on to send "NO CARRIER".
C16_Witness ==
    /\ chan = <<"CONNECTED">>
    /\ mon.pc = "send"
    /\ mon.status = "NO_CARRIER"
    /\ ~cancelled

\* this step takes a line out of the port or out of the monitor's reader
TakesLine == Len(mbuf') + Len(rx') < Len(mbuf) + Len(rx)

\* C17: while the context is not cancelled, every line taken from the port
\* goes to the read goroutine the monitor waits for, and every line that
\* goroutine holds goes through the switch of the monitor.
C17_EveryLineIsProcessed ==
    [][~cancelled =>
          /\ TakesLine => (cur.st = "reading" /\ cur'.st = "line")
          /\ (cur.st = "line" /\ cur' # cur) => SelectLine]_vars

\* C18: once the context is cancelled the goroutine returns and the channel
\* is closed.
C18_CancelStopsMonitor == cancelled ~> (mon.pc = "closed")

\* C18 happens: the context was cancelled and the channel is closed, with a
\* status in it that the consumer has not received.
C18_Witness ==
    /\ cancelled
    /\ mon.pc = "closed"
    /\ Len(chan) = StatusChanCap

\* C19: once the context is cancelled nothing is put on the channel.
C19_NoStatusAfterCancel == [][cancelled => ~Emits]_vars

\* C20: after a read that timed out or failed the monitor is at the top of
\* its loop, with nothing sent and the channel open, and from there, when
\* the context is not cancelled, it starts the next read.
C20_FailedReadIsNoNews ==
    [][/\ (SelectTimeout \/ SelectError) => (mon'.pc = "top" /\ ~Emits)
       /\ (mon.pc = "top" /\ ~cancelled /\ mon'.pc # "top") =>
            (mon'.pc = "wait" /\ cur'.st = "reading")]_vars

\* C20 happens: a read timed out, its goroutine is left behind, and the
\* monitor waits for the next read.
C20_Witness ==
    /\ mon.pc = "wait"
    /\ cur.st = "reading"
    /\ orphans > 0
    /\ ~cancelled

(***************************************************************************)
(* Claims about the call session (checked under SpecMon).                  *)
(***************************************************************************)
\* the monitor of a call that was accepted is running
SessionMonitorRuns == mon.handed /\ mon.pc \in {"top", "wait", "send"}

\* C21: when HangupCall returns while the monitor of the call runs, the
\* context of the monitor is cancelled.
C21_HangupCancelsMonitor ==
    [][(ClientHangupReturn("cli") /\ SessionMonitorRuns) => cancelled']_vars

(***************************************************************************)
(* SpecStatus: the status job on a connected driver, with a module that    *)
(* answers with lines chosen at the start and kept in todo["job1"], with   *)
(* "OK" and with "+CME ERROR".                                             *)
(***************************************************************************)
\* signal quality, well formed
L_CSQ_20 ==
    <<"+", "C", "S", "Q", ":", " ", "2", "0", ",", "9", "9">>
L_CSQ_6 ==
    <<"+", "C", "S", "Q", ":", "6", ",", "0">>
L_CSQ_5 ==
    <<"+", "C", "S", "Q", ":", " ", "5", ",", "0">>
L_CSQ_99 ==
    <<"+", "C", "S", "Q", ":", " ", "9", "9", ",", "9", "9">>
L_CSQ_007 ==
    <<"+", "C", "S", "Q", ":", " ", " ", "0", "0", "7", ",", "1">>
\* signal quality with a first number of 20 digits
L_CSQ_HUGE ==
    <<"+", "C", "S", "Q", ":", " ", "9", "9", "9", "9", "9", "9", "9", "9",
      "9", "9", "9", "9", "9", "9", "9", "9", "9", "9", "9", "9", ",", "0">>
\* signal quality with text before and after it
L_CSQ_AMID ==
    <<"A", "T", "+", "C", "S", "Q", ":", " ", "3", "1", ",", "7", "d", "B",
      "m">>
\* signal quality, malformed
L_CSQ_NOCOMMA ==
    <<"+", "C", "S", "Q", ":", " ", "2", "0">>
L_CSQ_NOBER ==
    <<"+", "C", "S", "Q", ":", " ", "2", "0", ",">>
L_CSQ_LETTER ==
    <<"+", "C", "S", "Q", ":", " ", "x", ",", "1">>
L_CSQ_NOPLUS ==
    <<"C", "S", "Q", ":", " ", "2", "0", ",", "9", "9">>
L_CSQ_MINUS ==
    <<"+", "C", "S", "Q", ":", " ", "-", "1", ",", "5">>
L_CSQ_NOCOLON ==
    <<"+", "C", "S", "Q", " ", "2", "0", ",", "9", "9">>
\* registration
L_CREG_0 ==
    <<"+", "C", "R", "E", "G", ":", " ", "0", ",", "0">>
L_CREG_1 ==
    <<"+", "C", "R", "E", "G", ":", " ", "0", ",", "1">>
L_CREG_2 ==
    <<"+", "C", "R", "E", "G", ":", " ", "0", ",", "2">>
L_CREG_3 ==
    <<"+", "C", "R", "E", "G", ":", " ", "0", ",", "3">>
L_CREG_4 ==
    <<"+", "C", "R", "E", "G", ":", " ", "0", ",", "4">>
L_CREG_5 ==
    <<"+", "C", "R", "E", "G", ":", " ", "0", ",", "5">>
L_CREG_6 ==
    <<"+", "C", "R", "E", "G", ":", " ", "0", ",", "6">>
L_CREG_10 ==
    <<"+", "C", "R", "E", "G", ":", " ", "0", ",", "1", "0">>
L_CREG_LAC ==
    <<"+", "C", "R", "E", "G", ":", " ", "2", ",", "1", ",", "\"", "1",
      "A", "2", "B", "\"", ",", "\"", "0", "C", "\"">>
L_CREG_SHORT ==
    <<"+", "C", "R", "E", "G", ":", " ", "1">>
\* SIM
L_CPIN_READY ==
    <<"+", "C", "P", "I", "N", ":", " ", "R", "E", "A", "D", "Y">>
L_CPIN_PIN ==
    <<"+", "C", "P", "I", "N", ":", " ", "S", "I", "M", " ", "P", "I", "N">>
L_CPIN_PUK ==
    <<"+", "C", "P", "I", "N", ":", " ", "S", "I", "M", " ", "P", "U", "K">>
L_CPIN_NONE ==
    <<"+", "C", "P", "I", "N", ":", " ", "N", "O", "T", " ", "I", "N", "S",
      "E", "R", "T", "E", "D">>
\* operator
L_COPS ==
    <<"+", "C", "O", "P", "S", ":", " ", "0", ",", "0", ",", "\"", "C",
      "M", "C", "C", "\"", ",", "7">>
L_COPS_NONE ==
    <<"+", "C", "O", "P", "S", ":", " ", "0">>
\* IMEI: 15 digits, 15 digits in white space, 14 and 16 digits, 15
\* characters with a letter at the end and at the start
L_IMEI ==
    <<"8", "6", "1", "2", "3", "4", "5", "6", "7", "8", "9", "0", "1", "2",
      "3">>
L_IMEI_B ==
    <<"3", "5", "0", "0", "0", "0", "0", "0", "0", "0", "0", "0", "0", "1",
      "7">>
L_IMEI_PADDED ==
    <<" ", "\t", "8", "6", "1", "2", "3", "4", "5", "6", "7", "8", "9",
      "0", "1", "2", "3", " ">>
L_IMEI_14 ==
    <<"8", "6", "1", "2", "3", "4", "5", "6", "7", "8", "9", "0", "1", "2">>
L_IMEI_16 ==
    <<"8", "6", "1", "2", "3", "4", "5", "6", "7", "8", "9", "0", "1", "2",
      "3", "4">>
L_IMEI_LETTER ==
    <<"8", "6", "1", "2", "3", "4", "5", "6", "7", "8", "9", "0", "1", "2",
      "A">>
L_IMEI_LETTER1 ==
    <<"A", "6", "1", "2", "3", "4", "5", "6", "7", "8", "9", "0", "1", "2",
      "3">>
\* lines that answer the three queries of the status test at once
L_ALL_6 ==
    <<"+", "C", "S", "Q", ":", " ", "6", ",", "0", " ", "+", "C", "R", "E",
      "G", ":", " ", "0", ",", "1", " ", "R", "E", "A", "D", "Y">>
L_ALL_5 ==
    <<"+", "C", "S", "Q", ":", " ", "5", ",", "0", " ", "+", "C", "R", "E",
      "G", ":", " ", "0", ",", "1", " ", "R", "E", "A", "D", "Y">>
L_ALL_99 ==
    <<"+", "C", "S", "Q", ":", " ", "9", "9", ",", "9", "9", " ", "+", "C",
      "R", "E", "G", ":", " ", "0", ",", "1", " ", "R", "E", "A", "D", "Y">>
L_ALL_ROAM ==
    <<"+", "C", "S", "Q", ":", " ", "6", ",", "0", " ", "+", "C", "R", "E",
      "G", ":", " ", "0", ",", "5", " ", "R", "E", "A", "D", "Y">>
L_ALL_PIN ==
    <<"+", "C", "S", "Q", ":", " ", "6", ",", "0", " ", "+", "C", "R", "E",
      "G", ":", " ", "0", ",", "1", " ", "S", "I", "M", " ", "P", "I", "N">>

StatusLines ==
    {L_CSQ_20, L_CSQ_6, L_CSQ_5, L_CSQ_99, L_CSQ_007, L_CSQ_HUGE,
     L_CSQ_AMID, L_CSQ_NOCOMMA, L_CSQ_NOBER, L_CSQ_LETTER,
     L_CSQ_NOPLUS, L_CSQ_MINUS, L_CSQ_NOCOLON, L_CREG_0, L_CREG_1,
     L_CREG_2, L_CREG_3, L_CREG_4, L_CREG_5, L_CREG_6, L_CREG_10,
     L_CREG_LAC, L_CREG_SHORT, L_CPIN_READY, L_CPIN_PIN, L_CPIN_PUK,
     L_CPIN_NONE, L_COPS, L_COPS_NONE, L_IMEI, L_IMEI_B,
     L_IMEI_PADDED, L_IMEI_14, L_IMEI_16, L_IMEI_LETTER,
     L_IMEI_LETTER1, L_ALL_6, L_ALL_5, L_ALL_99, L_ALL_ROAM, L_ALL_PIN}

\* the lines of a run: one line, or two IMEI lines in an order
StatusInputs ==
    {<<l>> : l \in StatusLines}
        \cup {<<L_IMEI_B, L_IMEI>>, <<L_IMEI_16, L_IMEI_B>>}

\* how many lines the module sends in a run of SpecStatus
MaxFeedStatus == 4

\* The driver is connected and the schedule is about to fire for the last
\* time of the run.
InitStatus ==
    /\ port = "open"
    /\ connected = TRUE
    /\ rx = <<>>
    /\ stale = [p \in Procs |-> 0]
    /\ x = [p \in Procs |-> NoFrame]
    /\ pc = [p \in Procs |-> IF p = "init" THEN "ready" ELSE "idle"]
    /\ mu = "free"
    /\ ticks = MaxTicks - 1
    /\ \E lines \in StatusInputs :
          todo = [p \in Procs |-> IF p = "job1" THEN lines ELSE <<>>]
    /\ snap = [p \in Procs |-> NoSnap]
    /\ reply = [p \in Procs |-> NoReply]
    /\ active = [p \in Procs |-> FALSE]
    /\ mon = NoMonitor
    /\ mbuf = <<>>
    /\ cur = NoReader
    /\ orphans = 0
    /\ cancelled = FALSE
    /\ chan = <<>>
    /\ fed = 0

NextStatus ==
    \/ Tick("job1")
    \/ QueryReturn("job1")
    \/ Notify("job1")
    \/ JobReturn("job1")
    \/ Flush("job1") \/ Write("job1") \/ ReadLine("job1") \/ ReadFail("job1")
    \/ \E l \in SysLines : ModemFeedUpTo(l, MaxRxSys, MaxFeedStatus)
    \/ \E k \in 1..Len(todo["job1"]) :
          ModemFeedUpTo(todo["job1"][k], MaxRxSys, MaxFeedStatus)

SpecStatus == InitStatus /\ [][NextStatus]_vars

(***************************************************************************)
(* Claims about the status job (checked under SpecStatus).                 *)
(***************************************************************************)
\* the lines the module answers with in this run
RunLines == {todo["job1"][k] : k \in 1..Len(todo["job1"])}

\* the response of the query that is returning holds the line
Answers(line) ==
    /\ x["job1"].st = "ret"
    /\ x["job1"].err = "nil"
    /\ Contains(Response(x["job1"]), line \o CRLF)

\* the query q of job1 returns in this step
Returns(q) ==
    /\ pc["job1"] = q
    /\ x["job1"].st = "ret"
    /\ pc'["job1"] # q

\* the value and the error of the getter of query q on frame f
Getter(q, f) ==
    CASE q = "csq"  -> getSignalStrength(f)
      [] q = "creg" -> getNetworkRegistrationStatus(f)
      [] q = "cpin" -> getSIMStatus(f)
      [] q = "cops" -> getOperatorName(f)
      [] q = "cgsn" -> getIMEI(f)

\* the field of query q in the snapshot s, and its zero value
Field(s, q) ==
    CASE q = "csq"  -> s.signal
      [] q = "creg" -> s.reg
      [] q = "cpin" -> s.sim
      [] q = "cops" -> s.op
      [] q = "cgsn" -> s.imei

Zero(q) ==
    CASE q = "csq" -> 0
      [] q \in {"creg", "cpin"} -> ""
      [] q \in {"cops", "cgsn"} -> <<>>

\* the commands of CheckNetworkStatus in the order of the claim
C22_Order ==
    << <<"csq", T_CSQ>>, <<"creg", T_CREG>>, <<"cpin", T_CPIN>>,
       <<"cops", T_COPS>>, <<"cgsn", T_CGSN>> >>

\* C22: CheckNetworkStatus never fails: whatever queries fail, a returning
\* query is followed by the next one of AT+CSQ, AT+CREG?, AT+CPIN?,
\* AT+COPS?, AT+CGSN and the last one by the report; the field of a query
\* that failed to send or to parse is left at its zero value, the field of
\* any other query is set from its own response, and no other field changes.
C22_SnapshotNeverFails ==
    [][\A k \in 1..5 :
          Returns(C22_Order[k][1]) =>
             LET q == C22_Order[k][1]
                 g == Getter(q, x["job1"])
             IN  /\ x["job1"].cmd \in {C22_Order[k][2], <<>>}
                 /\ IF k < 5
                    THEN /\ pc'["job1"] = C22_Order[k + 1][1]
                         /\ x'["job1"].cmd = C22_Order[k + 1][2]
                    ELSE pc'["job1"] = "notify"
                 /\ Field(snap'["job1"], q) =
                        (IF g.err = "nil" THEN g.val ELSE Zero(q))
                 /\ \A o \in {"csq", "creg", "cpin", "cops", "cgsn"} \ {q} :
                        Field(snap'["job1"], o) = Field(snap["job1"], o)
      ]_vars

\* C22 (witness): the snapshot is complete with the signal read, the
\* registration failed to parse and the IMEI left empty.
C22_Witness ==
    /\ pc["job1"] = "notify"
    /\ snap["job1"].signal = 20
    /\ snap["job1"].reg = ""
    /\ snap["job1"].sim = "unknown"
    /\ snap["job1"].imei = <<>>

\* C23: the status is normal exactly when the signal is above 5, the
\* registration is the one of the home network and the SIM is ready; a
\* signal of 99 is a signal above 5.
C23_NormalStatus ==
    \A j \in {"job1"} :
        isNetworkStatusNormal(snap[j]) <=>
            /\ snap[j].signal \in Nat \ (0..5)
            /\ snap[j].reg = "home"
            /\ snap[j].sim = "ready"

\* C23 (witness): a snapshot with a signal of 5 on the home network with
\* the SIM ready is reported.
C23_Witness ==
    /\ pc["job1"] = "unlock"
    /\ snap["job1"].signal = 5
    /\ snap["job1"].reg = "home"
    /\ snap["job1"].sim = "ready"
    /\ snap["job1"].sent[1].text = "abnormal"

\* the responses of the claim and the states they are to parse to
C24_Table ==
    { <<L_CREG_0, "unregistered">>, <<L_CREG_1, "home">>,
      <<L_CREG_2, "searching">>, <<L_CREG_3, "denied">>,
      <<L_CREG_5, "roaming">>, <<L_CREG_4, "unknown">>,
      <<L_CREG_6, "unknown">>, <<L_CREG_10, "unknown">> }

\* C24: a response +CREG: <n>,<state> parses without an error, to the
\* state of the table for 0, 1, 2, 3 and 5 and to unknown for 4, 6 and 10.
C24_RegistrationTable ==
    [][\A row \in C24_Table :
          (Returns("creg") /\ Answers(row[1])) =>
             /\ getNetworkRegistrationStatus(x["job1"]).err = "nil"
             /\ snap'["job1"].reg = row[2]
      ]_vars

\* C24 (witness): the code 10 was parsed to unknown.
C24_Witness ==
    /\ pc["job1"] = "cpin"
    /\ todo["job1"] = <<L_CREG_10>>
    /\ snap["job1"].reg = "unknown"

\* the well-formed responses +CSQ: <n>,<m> of the runs, with their n
C25_WellFormed ==
    { <<L_CSQ_20, 20>>, <<L_CSQ_6, 6>>, <<L_CSQ_5, 5>>, <<L_CSQ_99, 99>>,
      <<L_CSQ_007, 7>>, <<L_ALL_6, 6>>, <<L_ALL_5, 5>>, <<L_ALL_99, 99>>,
      <<L_ALL_ROAM, 6>>, <<L_ALL_PIN, 6>> }

\* the lines that hold a signal quality response
C25_HasCSQ ==
    {row[1] : row \in C25_WellFormed} \cup {L_CSQ_HUGE, L_CSQ_AMID}

\* a response without any well-formed signal quality is parsed to an error
\* and the signal stays 0
C25_MalformedFails ==
    (Returns("csq") /\ x["job1"].err = "nil" /\ RunLines \cap C25_HasCSQ = {})
        => /\ getSignalStrength(x["job1"]).err = "parse"
           /\ snap'["job1"].signal = 0

\* a well-formed response with a number n of the table is parsed to n
C25_WellFormedParses ==
    \A row \in C25_WellFormed :
        (Returns("csq") /\ Answers(row[1]))
            => /\ getSignalStrength(x["job1"]).err = "nil"
               /\ snap'["job1"].signal = row[2]

\* C25 (as claimed): every well-formed response +CSQ: <n>,<m> is parsed
\* without an error, to n; every malformed one to a parse error and 0.
C25_EveryWellFormedParses ==
    [][/\ C25_WellFormedParses
       /\ (Returns("csq") /\ Answers(L_CSQ_HUGE))
              => getSignalStrength(x["job1"]).err = "nil"
       /\ C25_MalformedFails
      ]_vars

\* C25 (amended): a well-formed response +CSQ: <n>,<m> whose n fits an int
\* is parsed to n, also with text before and after it; one whose n does
\* not fit an int is parsed to a parse error and 0, as every malformed
\* response is.
C25_SignalParsing ==
    [][/\ C25_WellFormedParses
       /\ (Returns("csq") /\ Answers(L_CSQ_AMID))
              => /\ getSignalStrength(x["job1"]).err = "nil"
                 /\ snap'["job1"].signal = 31
       /\ (Returns("csq") /\ Answers(L_CSQ_HUGE))
              => /\ getSignalStrength(x["job1"]).err = "parse"
                 /\ snap'["job1"].signal = 0
       /\ C25_MalformedFails
      ]_vars

\* C25 (witness): getSignalStrength is about to return for a response
\* whose first number has 20 digits.
C25_Witness ==
    /\ pc["job1"] = "csq"
    /\ Answers(L_CSQ_HUGE)
    /\ getSignalStrength(x["job1"]).err = "parse"

\* the lines of the response read by the returning query, trimmed
C26_Lines ==
    [k \in 1..Len(x["job1"].resp) |-> TrimSpace(x["job1"].resp[k])]

\* the lines of the response of exactly 15 decimal digits
C26_Qualifying ==
    {k \in 1..Len(C26_Lines) :
        /\ Len(C26_Lines[k]) = 15
        /\ \A i \in 1..15 : C26_Lines[k][i] \in Digits}

C28_OneReport ==
    LET s == snap["job1"]
    IN  /\ Len(s.sent) <= 1
        /\ pc["job1"] \in {"csq", "creg", "cpin", "cops", "cgsn", "notify"}
              => s.sent = <<>> /\ s.ret = "none"
        /\ pc["job1"] = "unlock"
              => /\ Len(s.sent) = 1
                 /\ s.sent[1].text = "normal" <=> isNetworkStatusNormal(s)
                 /\ s.sent[1].text \in {"normal", "abnormal"}
                 /\ s.ret = "err" <=> ~s.sent[1].ok
                 /\ s.ret \in {"nil", "err"}

\* C28 (witness): the report of a normal snapshot could not be sent.
C28_Witness ==
    /\ pc["job1"] = "unlock"
    /\ snap["job1"].ret = "err"
    /\ Len(snap["job1"].sent) = 1
    /\ snap["job1"].sent[1].text = "normal"

(***************************************************************************)
(* SpecInit: NewEC600N, and the status job that the scheduler runs once    *)
(* the application has started.                                            *)
(***************************************************************************)
InitLines == {M_OK, M_CMEERROR, M_RING}

NextInit ==
    \/ InitSerial
    \/ TestConnection
    \/ Tick("job1")
    \/ QueryReturn("job1")
    \/ Notify("job1")
    \/ JobReturn("job1")
    \/ \E p \in {"init", "job1"} :
          Flush(p) \/ Write(p) \/ ReadLine(p) \/ ReadFail(p)
    \/ \E l \in InitLines : ModemSend(l, MaxRxSys)

SpecInit == Init /\ [][NextInit]_vars

\* C27: connected becomes true only when the port is open and the probe
\* has returned without an error a response with "OK"; once NewEC600N has
\* failed connected stays false, no call of sendATCommand is made or goes
\* on and nothing is written to the port.
C27_InitFailureIsFatal ==
    [][/\ (~connected /\ connected')
             => /\ port = "open"
                /\ pc["init"] = "probe"
                /\ x["init"].st = "ret"
                /\ x["init"].err = "nil"
                /\ Contains(Flatten(x["init"].resp), <<"O", "K">>)
                /\ pc'["init"] = "ready"
       /\ pc'["init"] = "failed"
             => /\ ~connected'
                /\ \A p \in Procs : x'[p] = NoFrame
                /\ \A p \in Procs \ {"init"} : pc'[p] = "idle"
       /\ pc["init"] = "failed" => pc'["init"] = "failed"
       /\ connected' => pc'["init"] = "ready"
      ]_vars

\* C27 (witness): the port was opened and the probe has failed.
C27_Witness ==
    /\ pc["init"] = "failed"
    /\ port = "open"
    /\ ~connected

(***************************************************************************)
(* SpecNotify: handleNotify.  Times are in milliseconds from a full second *)
(* near the current time, so that a timestamp in seconds is a count of     *)
(* seconds from there and one in milliseconds a count of milliseconds.     *)
(***************************************************************************)
TimestampTolerance == 5

\* time.Duration(TimestampTolerance) * time.Minute, in milliseconds
Tolerance == TimestampTolerance * 60 * 1000

\* A request.
\*   method "POST" | "GET"
\*   json   whether the body decodes to a NotifyRequest
\*   sig    whether Signature is, but for the case of its letters, the
\*          signature of name, phoneNumbers and timestamp
\*   unit   what Timestamp holds: a number of seconds "s", a number of
\*          milliseconds "ms" (a number above 9999999999), or no number
\*          "text"
\*   ts     the number
\*   phone  PhoneNumbers
Request(method, json, sig, unit, ts, phone) ==
    [method |-> method, json |-> json, sig |-> sig, unit |-> unit,
     ts |-> ts, phone |-> phone]

\* validateTimestamp: no number fails; a number of milliseconds is divided
\* by 1000 (the division of a positive integer drops the fraction); the
\* time of the full second must be no more than the tolerance away.
validateTimestamp(req, now) ==
    IF req.unit = "text" THEN FALSE
    ELSE LET timestamp == IF req.unit = "ms" THEN req.ts \div 1000
                          ELSE req.ts
             diff == now - timestamp * 1000
         IN  ~(diff > Tolerance \/ diff < -Tolerance)

\* parseAndValidateRequest: "ok" or the error it returns
parseAndValidateRequest(req, now) ==
    CASE req.method # "POST" -> "method"
      [] req.method = "POST" /\ ~req.json -> "json"
      [] req.method = "POST" /\ req.json /\ ~req.sig -> "sign"
      [] req.method = "POST" /\ req.json /\ req.sig
            /\ ~validateTimestamp(req, now) -> "time"
      [] OTHER -> "ok"

\* the status code handleNotify picks for an error
StatusCode(err) ==
    CASE err \in {"sign", "time"} -> 401
      [] err = "method" -> 405
      [] OTHER -> 400

\* strings.Split(s, sep) for a one-character sep
RECURSIVE Split(_, _)
Split(s, sep) ==
    IF \A k \in 1..Len(s) : s[k] # sep THEN <<s>>
    ELSE LET n == CHOOSE k \in 1..Len(s) :
                      s[k] = sep /\ \A j \in 1..(k - 1) : s[j] # sep
         IN  <<SubSeq(s, 1, n - 1)>> \o Split(SubSeq(s, n + 1, Len(s)), sep)

NotEmpty(s) == s # <<>>

\* parsePhoneNumbers
parsePhoneNumbers(phoneNumbersStr) ==
    IF phoneNumbersStr = <<>> THEN <<>>
    ELSE LET numbers == Split(phoneNumbersStr, ",")
         IN  SelectSeq([k \in 1..Len(numbers) |-> TrimSpace(numbers[k])],
                       NotEmpty)

\* processPhoneCalls returns nil: the module is there and connected and
\* there is a number
CallsStarted(phoneNumbersStr) ==
    /\ phoneNumbersStr # <<>>
    /\ pc["init"] = "ready"
    /\ connected
    /\ parsePhoneNumbers(phoneNumbersStr) # <<>>

\* the numbers the call goroutine of processPhoneCalls loops over
CallList(phoneNumbers) == Tail(phoneNumbers)

\* handleNotify: a request that fails the validation is answered with the
\* error; any other is answered with 200 and success, and processPhoneCalls
\* has started the call goroutine or has returned an error.
HandleNotify(r, req, now) ==
    /\ pc[r] = "idle"
    /\ reply[r].status = 0
    /\ LET err == parseAndValidateRequest(req, now)
           started == err = "ok" /\ CallsStarted(req.phone)
       IN  /\ reply' = [reply EXCEPT ![r] =
                           [status |-> IF err = "ok" THEN 200
                                       ELSE StatusCode(err),
                            success |-> err = "ok",
                            started |-> started,
                            req |-> req,
                            now |-> now]]
           /\ IF started
              THEN /\ todo' = [todo EXCEPT ![r] =
                                  CallList(parsePhoneNumbers(req.phone))]
                   /\ pc' = [pc EXCEPT ![r] = "loop"]
              ELSE UNCHANGED <<todo, pc>>
    /\ UNCHANGED <<port, connected, rx, stale, x, mu, ticks, active, snap,
                 monVars, fed>>

\* the timestamps of the requests: in seconds, in milliseconds, no number
Timestamps ==
    {<<"s", s>> : s \in {-301, -300, 0, 300, 301}}
        \cup {<<"ms", ms>> : ms \in {-300900, -300000, -299200, 0, 700,
                                      300000, 300700, 300900}}
        \cup {<<"text", 0>>}

PH_12   == <<"1", ",", "2">>
PH_1    == <<"1">>
PH_123  == <<" ", "1", ",", ",", "2", " ", ",", "3">>
PH_NONE == <<" ", ",">>

Phones == {PH_12, PH_1, PH_123, PH_NONE, <<>>}

NotifyRequests ==
    {Request("POST", TRUE, sig, t[1], t[2], phone) :
        sig \in BOOLEAN, t \in Timestamps, phone \in Phones}
        \cup {Request("GET", TRUE, TRUE, "s", 0, PH_12),
              Request("POST", FALSE, TRUE, "s", 0, PH_12)}

\* time.Now(): a full second, or 700 ms after it
Clock == {0, 700}

\* the driver is connected, or the module is disabled and NewEC600N has
\* returned no instance
InitNotify ==
    /\ \E on \in BOOLEAN :
          /\ port = IF on THEN "open" ELSE "nil"
          /\ connected = on
          /\ pc = [p \in Procs |-> IF p = "init"
                                   THEN (IF on THEN "ready" ELSE "off")
                                   ELSE "idle"]
    /\ rx = <<>>
    /\ stale = [p \in Procs |-> 0]
    /\ x = [p \in Procs |-> NoFrame]
    /\ mu = "free"
    /\ ticks = 0
    /\ todo = [p \in Procs |-> <<>>]
    /\ snap = [p \in Procs |-> NoSnap]
    /\ reply = [p \in Procs |-> NoReply]
    /\ active = [p \in Procs |-> FALSE]
    /\ mon = NoMonitor
    /\ mbuf = <<>>
    /\ cur = NoReader
    /\ orphans = 0
    /\ cancelled = FALSE
    /\ chan = <<>>
    /\ fed = 0

NextNotify ==
    \/ \E req \in NotifyRequests, now \in Clock : HandleNotify("req1", req, now)
    \/ CallLoop("req1")
    \/ MakeCallReturn("req1")
    \/ HangupCall("req1")
    \/ HangupReturn("req1")
    \/ Flush("req1") \/ Write("req1") \/ ReadLine("req1") \/ ReadFail("req1")
    \/ \E l \in SysLines : ModemSend(l, MaxRxSys)

SpecNotify == InitNotify /\ [][NextNotify]_vars

(***************************************************************************)
(* Claims about the notify endpoint (checked under SpecNotify).            *)
(***************************************************************************)
\* the time the timestamp of a request names, and whether it is within
\* 5 minutes of now
C29_Instant(req) == IF req.unit = "ms" THEN req.ts ELSE req.ts * 1000

C29_InTolerance(req, now) ==
    /\ req.unit \in {"s", "ms"}
    /\ now - C29_Instant(req) <= 300000
    /\ C29_Instant(req) - now <= 300000

\* C29: a POST whose signature matches and whose timestamp, in seconds or
\* in milliseconds, is within 5 minutes of the current time is answered with
\* 200 and success, whatever the state of the module; one whose signature
\* is wrong or whose timestamp is out of tolerance is answered with 401 and
\* no success and starts no call.
C29_OutcomeFollowsValidation ==
    \A r \in Reqs :
        LET a == reply[r]
        IN  (a.status # 0 /\ a.req.method = "POST" /\ a.req.json) =>
               IF a.req.sig /\ C29_InTolerance(a.req, a.now)
               THEN a.status = 200 /\ a.success
               ELSE a.status = 401 /\ ~a.success /\ ~a.started

\* C30: the call goroutine of a validated request, with the module
\* connected, is started on all the numbers of the request, the first one
\* included.
C30_EveryNumberIsCalled ==
    [][\A r \in Reqs :
          (reply[r].status = 0 /\ reply'[r].started) =>
             /\ todo'[r] # <<>>
             /\ todo'[r] = parsePhoneNumbers(reply'[r].req.phone)
      ]_vars

(***************************************************************************)
(* Claims about the serial handle (checked under SpecInit).                *)
(***************************************************************************)
\* C31: once NewEC600N has returned an error, the serial port is not open.
C31_FailedInitClosesPort == pc["init"] = "failed" => port # "open"

(***************************************************************************)
(* The schedule alone: the driver is connected and cron fires the function *)
(* of the job, every firing in a goroutine of its own.                     *)
(***************************************************************************)
InitSched ==
    /\ port = "open"
    /\ connected = TRUE
    /\ rx = <<>>
    /\ stale = [p \in Procs |-> 0]
    /\ x = [p \in Procs |-> NoFrame]
    /\ pc = [p \in Procs |-> IF p = "init" THEN "ready" ELSE "idle"]
    /\ mu = "free"
    /\ ticks = 0
    /\ todo = [p \in Procs |-> <<>>]
    /\ snap = [p \in Procs |-> NoSnap]
    /\ reply = [p \in Procs |-> NoReply]
    /\ active = [p \in Procs |-> FALSE]
    /\ mon = NoMonitor
    /\ mbuf = <<>>
    /\ cur = NoReader
    /\ orphans = 0
    /\ cancelled = FALSE
    /\ chan = <<>>
    /\ fed = 0

NextSched ==
    \/ \E j \in Jobs : Tick(j)
    \/ \E j \in Jobs : QueryReturn(j)
    \/ \E j \in Jobs : Notify(j)
    \/ \E j \in Jobs : JobReturn(j)
    \/ \E j \in Jobs : Flush(j) \/ Write(j) \/ ReadLine(j) \/ ReadFail(j)
    \/ \E l \in SysLines : ModemSend(l, MaxRxSys)

SpecSched == InitSched /\ [][NextSched]_vars

(***************************************************************************)
(* Claims about the schedule (checked under SpecSched).                    *)
(***************************************************************************)
\* the firings of the function that are past TryLock and before Unlock
Running == {j \in Jobs : pc[j] # "idle"}

\* at most one firing runs, it holds the mutex, and the mutex is free when
\* none runs
OneJob ==
    /\ Cardinality(Running) <= 1
    /\ \A j \in Running : mu = j
    /\ Running = {} => mu = "free"

\* this step, the schedule fires
Fires == ticks' = ticks + 1

\* C32: at most one network check of the schedule runs at any time; a
\* firing while one runs is skipped and leaves nothing behind that would
\* run later, a check starts only with a firing of its own, and the mutex
\* is released when the check returns, with or without an error, so that
\* the next firing runs.
C32_OneMonitoringJob ==
    [][/\ OneJob
       /\ OneJob'
       /\ (Fires /\ Running # {})
             => (Running' = Running /\ UNCHANGED <<mu, x, pc, snap, todo>>)
       /\ (Fires /\ Running = {}) => Running' # {}
       /\ \A j \in Jobs : (j \notin Running /\ j \in Running')
             => (Fires /\ Running = {})
       /\ \A j \in Jobs :
             (pc[j] = "unlock" /\ snap[j].ret \in {"nil", "err"}
                 /\ pc'[j] = "idle") => (mu' = "free" /\ Running' = {})]_vars

\* both firings of the run have passed and a check whose report could not
\* be sent is about to return with the mutex held
C32_Witness ==
    /\ ticks = MaxTicks
    /\ mu = "job1"
    /\ pc["job1"] = "unlock"
    /\ snap["job1"].ret = "err"
    /\ pc["job2"] = "idle"

(***************************************************************************)
(* Claims about the call goroutine of one request (checked under           *)
(* SpecNotify).                                                            *)
(***************************************************************************)
\* MakeCall returned nil for the frame: sendATCommand gave a response and
\* the response holds "OK" or "CONNECT"
Accepted(f) ==
    /\ f.st = "ret"
    /\ f.err = "nil"
    /\ \/ Contains(Flatten(f.resp), T_OK)
       \/ Contains(Flatten(f.resp), T_CONNECT)

\* C33: in the call goroutine of a request, a dial that was accepted is
\* followed by one HangupCall, whose "ATH" is written once at most and once
\* when neither its flush nor its write fails; after a dial that was
\* rejected or failed the goroutine goes on to the next number without an
\* "ATH"; and a number is dialed only from the top of the loop, after the
\* hangup of the number before has returned.
C33_DialPairsWithHangup ==
    [][LET r == "req1" IN
       /\ (pc[r] = "dial" /\ pc'[r] # "dial") =>
             /\ x[r].st = "ret"
             /\ x'[r] = NoFrame
             /\ IF Accepted(x[r])
                THEN pc'[r] = "sleep" /\ todo'[r] = todo[r]
                ELSE pc'[r] = "loop" /\ todo'[r] = Tail(todo[r])
       /\ (pc[r] = "sleep" /\ pc'[r] # "sleep") =>
             /\ pc'[r] = "hangup"
             /\ x'[r].cmd = T_ATH
             /\ x'[r].st = "flush"
             /\ todo'[r] = todo[r]
       /\ (pc[r] = "hangup" /\ pc'[r] # "hangup") =>
             /\ x[r].st = "ret"
             /\ x[r].cmd = T_ATH
             /\ WriteCount(r) <= 1
             /\ x[r].err \notin {"flush", "write"} => WriteCount(r) = 1
             /\ pc'[r] = "loop"
             /\ todo'[r] = Tail(todo[r])
       /\ (pc'[r] = "dial" /\ pc[r] # "dial") =>
             /\ pc[r] = "loop"
             /\ x[r].st = "none"
             /\ x'[r] = MakeCall(Head(todo[r]))
       /\ x'[r].cmd = T_ATH => pc'[r] = "hangup"
       /\ IsDial(x'[r].cmd) => pc'[r] = "dial"
       /\ pc'[r] = "sleep" => pc[r] \in {"dial", "sleep"}
       /\ pc'[r] = "hangup" => pc[r] \in {"sleep", "hangup"}]_vars

\* the hangup of the second number of the loop has returned, after the
\* first number was done with
C33_Witness ==
    /\ reply["req1"].started
    /\ reply["req1"].req.phone = PH_123
    /\ pc["req1"] = "hangup"
    /\ x["req1"].st = "ret"
    /\ x["req1"].err = "nil"
    /\ Len(todo["req1"]) = 1

(***************************************************************************)
(* Claims about the end of the monitor (checked under FairSpecWatch and    *)
(* SpecMon).                                                               *)
(***************************************************************************)
\* the monitor has read a line that tells the end of the call and is at
\* the send of its status
TerminalRead == mon.pc = "send" /\ mon.term

\* C34: once the monitor has read "NO CARRIER", "BUSY" or "NO ANSWER", its
\* goroutine returns and the channel is closed, whether or not the consumer
\* receives and whether or not the context is cancelled.
C34_TerminalEndsMonitor == TerminalRead ~> (mon.pc = "closed")

\* The client dials with MakeCallWithMonitor only, and the goroutine of the
\* monitor runs on: its loop goes on, the wait for a line ends after the 500 ms at the latest,
\* and a send that can be done is done.  The client and the module are free.
NextCallMon ==
    \/ \E number \in Numbers : MakeCallWithMonitor("cli", number)
    \/ MakeCallWithMonitorReturn("cli")
    \/ Flush("cli")
    \/ Write("cli")
    \/ ReadLine("cli")
    \/ ReadFail("cli")
    \/ MonitorLoop
    \/ ReaderLine
    \/ ReaderError
    \/ OrphanReads
    \/ MonitorSelect
    \/ MonitorSend
    \/ Receive
    \/ \E l \in MonLines : ModemFeedUpTo(l, MaxRx, MaxFeedMon)

FairSpecDial ==
    /\ InitMon
    /\ [][NextCallMon]_vars
    /\ WF_vars(MonitorLoop)
    /\ WF_vars(SelectTimeout)
    /\ WF_vars(MonitorSend)

\* the goroutine of the monitor has not returned
MonitorRuns == mon.pc \notin {"none", "closed"}

\* this step, MakeCallWithMonitor of the client returns
MonitorCallReturns == pc["cli"] = "mdial" /\ pc'["cli"] = "idle"

\* C35: an error of MakeCallWithMonitor before the dial starts no monitor
\* and changes nothing of the monitor; when MakeCallWithMonitor returns an
\* error after the dial, the channel of the monitor it started is not
\* handed out and that monitor has returned or its context is cancelled; a
\* monitor whose context is cancelled returns in the end; and a monitor
\* runs on without cancellation only while the dial is under way or after
\* a dial that was accepted.
C35_ErrorLeavesNoMonitor ==
    /\ [][/\ (pc["cli"] = "idle" /\ pc'["cli"] = "mdial") =>
               IF x'["cli"].st = "ret"
               THEN x'["cli"].err \in {"port", "empty"} /\ UNCHANGED monVars
               ELSE mon'.pc = "top" /\ ~mon'.handed /\ ~cancelled'
          /\ MonitorCallReturns =>
               /\ x["cli"].st = "ret"
               /\ IF Accepted(x["cli"])
                  THEN mon'.handed /\ cancelled' = cancelled
                  ELSE IF x["cli"].err \in {"port", "empty"}
                  THEN UNCHANGED monVars
                  ELSE /\ ~mon'.handed
                       /\ ~MonitorRuns' \/ cancelled']_vars
    /\ [](MonitorRuns /\ ~cancelled => pc["cli"] = "mdial" \/ mon.handed)
    /\ (MonitorRuns /\ cancelled) ~> ~MonitorRuns

\* MakeCallWithMonitor has returned the error of a dial that was rejected,
\* no channel is handed out, and the monitor it had started has returned
\* after the cancellation
C35_Witness ==
    /\ pc["cli"] = "idle"
    /\ cancelled
    /\ ~mon.handed
    /\ mon.pc = "closed"

=============================================================================
